---- MODULE Spec2Model ----
(***************************************************************************)
(* A model of the vuei18n-extractor pipeline: key merging, namespace       *)
(* assignment, catalog rendering, the extraction orchestrator              *)
(* (src/src/extractor.js, third revision, lines 273-741) and the           *)
(* migration of catalog files with disallowed characters in their names.   *)
(*                                                                         *)
(* Strings (paths, namespaces, file names, key texts, translated values)   *)
(* are sequences of one-character strings.                                 *)
(***************************************************************************)
EXTENDS Integers, Sequences, FiniteSets, TLC

VARIABLES
  config,      \* [strategy, format]: the ExtractConfig fields the core reads
  tree,        \* source tree: glob-relative path -> messages extractFromFile returns
  disk,        \* output folder: file name -> file content (a sequence of lines)
  pc,          \* position inside extract(): idle, migrate, scan, generate, index, done
  migrations,  \* migrateInvalidFileNames: the pending migrations list
  files,       \* extract(): the sorted file list
  allKeys,     \* extract(): the merged key list
  namespaces,  \* extract(): getNamespaces(allKeys)
  li,          \* extract(): index of the current locale in config.locales
  ni,          \* extract(): index of the current namespace in namespaces
  stats,       \* extract(): [generated, skipped]
  writes,      \* history: << <<step, path>> ... >> written by the current run
  preDisk,     \* history: the output folder when the current run started
  preRun,      \* history: [config, tree, disk at the end] of the previous run
  quiet,       \* history: no edit happened since the previous run ended
  runs,        \* number of runs started
  edits,       \* number of edits made
  mA, mB, mC,  \* mergeKeys law: the three key lists
  mL, mR,      \* mergeKeys law: the results, [done, keys]
  arg,         \* a single call of one function: its arguments
  res          \* a single call of one function: [done, value]

mergeVars == <<mA, mB, mC, mL, mR>>

runVars == <<config, tree, disk, pc, migrations, files, allKeys, namespaces, li, ni,
             stats, writes, preDisk, preRun, quiet, runs, edits>>

callVars == <<arg, res>>

vars == <<runVars, mergeVars, callVars>>

----------------------------------------------------------------------------
(* Characters and strings                                                  *)

\* The characters of the model in ascending UTF-16 code unit order.
AsciiOrder ==
  <<
    "\t", "\n", "\f", "\r", " ", "\"", "$", "'", "(", ")", ",", "-", ".",
    "/", "0", "1", "2", "3", "4", "5", "6", "7", "8", "9", ":", "<", ">",
    "A", "B", "C", "D", "E", "F", "G", "H", "I", "J", "K", "L", "M", "N",
    "O", "P", "Q", "R", "S", "T", "U", "V", "W", "X", "Y", "Z", "[", "\\",
    "]", "_", "a", "b", "c", "d", "e", "f", "g", "h", "i", "j", "k", "l",
    "m", "n", "o", "p", "q", "r", "s", "t", "u", "v", "w", "x", "y", "z",
    "{", "|", "}"
  >>

Chars == {AsciiOrder[i] : i \in 1..Len(AsciiOrder)}

Code == [c \in Chars |-> CHOOSE i \in 1..Len(AsciiOrder) : AsciiOrder[i] = c]

UpperSeq ==
  <<
    "A", "B", "C", "D", "E", "F", "G", "H", "I", "J", "K", "L", "M", "N",
    "O", "P", "Q", "R", "S", "T", "U", "V", "W", "X", "Y", "Z"
  >>

LowerSeq ==
  <<
    "a", "b", "c", "d", "e", "f", "g", "h", "i", "j", "k", "l", "m", "n",
    "o", "p", "q", "r", "s", "t", "u", "v", "w", "x", "y", "z"
  >>

DigitChars == {"0", "1", "2", "3", "4", "5", "6", "7", "8", "9"}

IsUpper(c) == \E i \in 1..Len(UpperSeq) : UpperSeq[i] = c

IsLower(c) == \E i \in 1..Len(LowerSeq) : LowerSeq[i] = c

\* String.prototype.toLowerCase on one character
ToLower(c) ==
  IF IsUpper(c)
  THEN LowerSeq[CHOOSE i \in 1..Len(UpperSeq) : UpperSeq[i] = c]
  ELSE c

\* \w of a JavaScript regular expression: [A-Za-z0-9_]
IsWordChar(c) == IsUpper(c) \/ IsLower(c) \/ c \in DigitChars \/ c = "_"

\* s < t for strings, by UTF-16 code units (Array.prototype.sort's default).
RECURSIVE StrLess(_, _)
StrLess(s, t) ==
  IF t = <<>> THEN FALSE
  ELSE IF s = <<>> THEN TRUE
  ELSE IF s[1] = t[1] THEN StrLess(Tail(s), Tail(t))
  ELSE Code[s[1]] < Code[t[1]]

\* Array.prototype.join
RECURSIVE Join(_, _)
Join(parts, sep) ==
  IF parts = <<>> THEN <<>>
  ELSE IF Len(parts) = 1 THEN parts[1]
  ELSE parts[1] \o sep \o Join(Tail(parts), sep)

\* String.prototype.split on a one-character separator
RECURSIVE SplitFrom(_, _, _)
SplitFrom(s, sep, cur) ==
  IF s = <<>> THEN <<cur>>
  ELSE IF s[1] = sep THEN <<cur>> \o SplitFrom(Tail(s), sep, <<>>)
  ELSE SplitFrom(Tail(s), sep, Append(cur, s[1]))

Split(s, sep) == SplitFrom(s, sep, <<>>)

\* Array.prototype.sort() without a comparator, on strings (stable insertion).
RECURSIVE InsertString(_, _)
InsertString(x, s) ==
  IF s = <<>> THEN <<x>>
  ELSE IF StrLess(x, s[1]) THEN <<x>> \o s
  ELSE <<s[1]>> \o InsertString(x, Tail(s))

RECURSIVE SortStrings(_)
SortStrings(s) ==
  IF s = <<>> THEN <<>>
  ELSE InsertString(s[Len(s)], SortStrings(SubSeq(s, 1, Len(s) - 1)))

Range(s) == {s[i] : i \in 1..Len(s)}

----------------------------------------------------------------------------
(* utils/security.js: validatePath                                          *)

\* process.cwd()
Cwd == <<"/", "p">>

StartsWith(s, prefix) ==
  Len(s) >= Len(prefix) /\ SubSeq(s, 1, Len(prefix)) = prefix

\* path.resolve(baseDir, filePath) for a relative path without . or .. segments
PathResolve(baseDir, filePath) ==
  IF filePath # <<>> /\ filePath[1] = "/" THEN filePath
  ELSE baseDir \o <<"/">> \o filePath

\* validatePath: [ok |-> FALSE] stands for the thrown Error
validatePath(filePath, baseDir) ==
  LET resolvedPath == PathResolve(baseDir, filePath)
  IN IF ~StartsWith(resolvedPath, baseDir)
     THEN [ok |-> FALSE, path |-> <<>>]
     ELSE [ok |-> TRUE, path |-> resolvedPath]

\* path.relative(from, to) for a path to below from
PathRelative(from, to) ==
  IF to = from THEN <<>>
  ELSE SubSeq(to, Len(from) + 2, Len(to))

----------------------------------------------------------------------------
(* utils/namespace.js: NamespaceGenerator                                   *)

Strategies == {"flat", "directory", "feature", "file", "bogus"}

\* config.maxDepth || 3
DefaultMaxDepth == 3

\* the default featureFolders
FeatureFolders ==
  { <<"f","e","a","t","u","r","e","s">>,
    <<"m","o","d","u","l","e","s">>,
    <<"p","a","g","e","s">>,
    <<"c","o","m","p","o","n","e","n","t","s">>,
    <<"v","i","e","w","s">>,
    <<"l","a","y","o","u","t","s">>,
    <<"c","o","m","p","o","s","a","b","l","e","s">> }

Common == <<"c", "o", "m", "m", "o", "n">>

\* index of the first "]" of s at or after position i, 0 if none
RECURSIVE FindClose(_, _)
FindClose(s, i) ==
  IF i > Len(s) THEN 0
  ELSE IF s[i] = "]" THEN i
  ELSE FindClose(s, i + 1)

\* s.replace(/\[<word>\]/gi, word)
RECURSIVE ReplaceMarker(_, _)
ReplaceMarker(s, word) ==
  LET n == Len(word) + 2
  IN IF s = <<>> THEN <<>>
     ELSE IF /\ Len(s) >= n
             /\ s[1] = "["
             /\ s[n] = "]"
             /\ \A i \in 1..Len(word) : ToLower(s[i + 1]) = word[i]
          THEN word \o ReplaceMarker(SubSeq(s, n + 1, Len(s)), word)
          ELSE <<s[1]>> \o ReplaceMarker(Tail(s), word)

\* s.replace(/\[[^\]]+\]/g, repl)
RECURSIVE ReplaceBracketed(_, _)
ReplaceBracketed(s, repl) ==
  IF s = <<>> THEN <<>>
  ELSE IF s[1] = "[" /\ FindClose(s, 2) > 2
       THEN repl \o ReplaceBracketed(SubSeq(s, FindClose(s, 2) + 1, Len(s)), repl)
       ELSE <<s[1]>> \o ReplaceBracketed(Tail(s), repl)

BracketChars == {"[", "]", "(", ")", "{", "}", "<", ">"}

\* a sanitizer that leaves the remaining brackets in place
KeepBrackets(s) == s

\* s.replace(/[[\](){}<>]/g, "")
StripBrackets(s) == SelectSeq(s, LAMBDA c : c \notin BracketChars)

\* s.replace(/[^\w.-]/g, "_")
ReplaceInvalid(s) ==
  [i \in 1..Len(s) |->
     IF IsWordChar(s[i]) \/ s[i] = "." \/ s[i] = "-" THEN s[i] ELSE "_"]

\* s.replace(/c+/g, c)
RECURSIVE CollapseRuns(_, _)
CollapseRuns(s, c) ==
  IF Len(s) < 2 THEN s
  ELSE IF s[1] = c /\ s[2] = c THEN CollapseRuns(Tail(s), c)
  ELSE <<s[1]>> \o CollapseRuns(Tail(s), c)

RECURSIVE TrimLeft(_)
TrimLeft(s) ==
  IF s # <<>> /\ s[1] \in {".", "_"} THEN TrimLeft(Tail(s)) ELSE s

RECURSIVE TrimRight(_)
TrimRight(s) ==
  IF s # <<>> /\ s[Len(s)] \in {".", "_"}
  THEN TrimRight(SubSeq(s, 1, Len(s) - 1))
  ELSE s

\* s.replace(/^[._]+|[._]+$/g, "")
TrimDotsUnderscores(s) == TrimRight(TrimLeft(s))

LowerCase(s) == [i \in 1..Len(s) |-> ToLower(s[i])]

sanitizeNamespace(namespace) ==
  LowerCase(
    TrimDotsUnderscores(
      CollapseRuns(
        CollapseRuns(
          ReplaceInvalid(
            StripBrackets(
              ReplaceBracketed(
                ReplaceMarker(ReplaceMarker(namespace, <<"i", "d">>),
                              <<"s", "l", "u", "g">>),
                <<"p", "a", "r", "a", "m">>))),
          "_"),
        ".")))

generateFlat == Common

\* parts.slice(0, n)
Slice(parts, n) == SubSeq(parts, 1, IF n < Len(parts) THEN n ELSE Len(parts))

\* parts after the optional leading "src" segment
DropSrc(parts) ==
  IF parts # <<>> /\ parts[1] = <<"s", "r", "c">> THEN Tail(parts) ELSE parts

generateFromDirectory(filePath) ==
  LET relativePath == PathRelative(Cwd, filePath)
      parts == DropSrc(Split(relativePath, "/"))
      dirs == SubSeq(parts, 1, Len(parts) - 1)
      namespace == Join(Slice(dirs, DefaultMaxDepth), <<".">>)
  IN IF namespace = <<>> THEN Common ELSE namespace

\* fileName.replace(/\.(vue|js|ts|jsx|tsx)$/, "")
Extensions ==
  { <<".", "v", "u", "e">>, <<".", "j", "s">>, <<".", "t", "s">>,
    <<".", "j", "s", "x">>, <<".", "t", "s", "x">> }

StripExtension(fileName) ==
  IF \E e \in Extensions :
       Len(fileName) >= Len(e)
       /\ SubSeq(fileName, Len(fileName) - Len(e) + 1, Len(fileName)) = e
  THEN LET e == CHOOSE e \in Extensions :
                  Len(fileName) >= Len(e)
                  /\ SubSeq(fileName, Len(fileName) - Len(e) + 1, Len(fileName)) = e
       IN SubSeq(fileName, 1, Len(fileName) - Len(e))
  ELSE fileName

generateFromFile(filePath) ==
  LET relativePath == PathRelative(Cwd, filePath)
      parts == DropSrc(Split(relativePath, "/"))
      fileNameWithoutExt == StripExtension(parts[Len(parts)])
      isIndex == LowerCase(fileNameWithoutExt) \in
                   { <<"i", "n", "d", "e", "x">>,
                     <<"d", "e", "f", "a", "u", "l", "t">> }
      dirs == Slice(SubSeq(parts, 1, Len(parts) - 1), DefaultMaxDepth)
      withName == IF ~isIndex /\ fileNameWithoutExt # <<>>
                  THEN Append(dirs, fileNameWithoutExt)
                  ELSE dirs
      namespace == Join(Slice(withName, DefaultMaxDepth), <<".">>)
  IN IF namespace = <<>> THEN Common ELSE namespace

generateFromFeature(filePath) ==
  LET relativePath == PathRelative(Cwd, filePath)
      parts == Split(relativePath, "/")
      hits == {i \in 1..Len(parts) : parts[i] \in FeatureFolders /\ i + 1 <= Len(parts)}
  IN IF hits # {}
     THEN LET i == CHOOSE i \in hits : \A j \in hits : i <= j
          IN ReplaceBracketed(parts[i + 1], <<>>)
     ELSE generateFromDirectory(filePath)

\* generateCustom when customNamespace is a function: result || "common"
generateCustom(result) == IF result = <<>> THEN Common ELSE result

\* generate() of a generator without a customNamespace function
generate(strategy, filePath) ==
  sanitizeNamespace(
    CASE strategy = "flat" -> generateFlat
      [] strategy = "directory" -> generateFromDirectory(filePath)
      [] strategy = "feature" -> generateFromFeature(filePath)
      [] strategy = "file" -> generateFromFile(filePath)
      [] OTHER -> generateFlat)

getFileName(strategy, namespace, locale, format) ==
  IF namespace = Common \/ strategy = "flat"
  THEN locale \o <<".">> \o format
  ELSE locale \o <<".">> \o namespace \o <<".">> \o format

----------------------------------------------------------------------------
(* parsers/message-parser.js                                                *)

IsIdentStart(c) == IsUpper(c) \/ IsLower(c) \/ c = "_" \/ c = "$"

IsIdentChar(c) == IsIdentStart(c) \/ c \in DigitChars

\* \s of a JavaScript regular expression, on the characters of the model
IsSpace(c) == c \in {" ", "\t", "\n", "\f", "\r"}

\* first index >= i whose character is not an identifier character
RECURSIVE SkipIdent(_, _)
SkipIdent(s, i) ==
  IF i <= Len(s) /\ IsIdentChar(s[i]) THEN SkipIdent(s, i + 1) ELSE i

RECURSIVE SkipWord(_, _)
SkipWord(s, i) ==
  IF i <= Len(s) /\ IsWordChar(s[i]) THEN SkipWord(s, i + 1) ELSE i

RECURSIVE SkipSpace(_, _)
SkipSpace(s, i) ==
  IF i <= Len(s) /\ IsSpace(s[i]) THEN SkipSpace(s, i + 1) ELSE i

\* /\{([a-zA-Z_$][a-zA-Z0-9_$]*)\}/g, collecting each distinct name once
RECURSIVE VariablesFrom(_, _, _)
VariablesFrom(text, i, found) ==
  IF i > Len(text) THEN found
  ELSE IF /\ text[i] = "{"
          /\ i + 1 <= Len(text)
          /\ IsIdentStart(text[i + 1])
          /\ SkipIdent(text, i + 1) <= Len(text)
          /\ text[SkipIdent(text, i + 1)] = "}"
       THEN LET j == SkipIdent(text, i + 1)
                varName == SubSeq(text, i + 1, j - 1)
            IN VariablesFrom(text, j + 1,
                 IF varName \in Range(found) THEN found ELSE Append(found, varName))
       ELSE VariablesFrom(text, i + 1, found)

extractVariables(text) == VariablesFrom(text, 1, <<>>)

\* whether /\{\s*\w+\s*,\s*(tag)\s*,/ matches text at position i, tag in tags
TagAt(text, i, tags) ==
  /\ text[i] = "{"
  /\ LET a == SkipSpace(text, i + 1)
         b == SkipWord(text, a)
         c == SkipSpace(text, b)
     IN /\ b > a
        /\ c <= Len(text)
        /\ text[c] = ","
        /\ LET d == SkipSpace(text, c + 1)
           IN \E tag \in tags :
                /\ d + Len(tag) - 1 <= Len(text)
                /\ SubSeq(text, d, d + Len(tag) - 1) = tag
                /\ LET e == SkipSpace(text, d + Len(tag))
                   IN e <= Len(text) /\ text[e] = ","

hasPluralization(text) ==
  \E i \in 1..Len(text) : TagAt(text, i, {<<"p", "l", "u", "r", "a", "l">>})

hasDateFormatting(text) ==
  \E i \in 1..Len(text) :
    TagAt(text, i, {<<"d", "a", "t", "e">>, <<"t", "i", "m", "e">>})

parseMessage(message) ==
  [variables |-> extractVariables(message),
   hasPlural |-> hasPluralization(message),
   hasDate |-> hasDateFormatting(message)]

----------------------------------------------------------------------------
(* parsers/key-extractor.js                                                 *)

\* The key texts of the model in String.prototype.localeCompare order.
KeyOrder ==
  << <<"C", "a", "n", "c", "e", "l">>,
     <<"c", "o", "n", "s", "t", "r", "u", "c", "t", "o", "r">>,
     <<"H", "i", " ", "{", "n", "}">>,
     <<"S", "a", "v", "e">> >>

KeyTexts == Range(KeyOrder)

KeyRank(k) == CHOOSE i \in 1..Len(KeyOrder) : KeyOrder[i] = k

\* a.key.localeCompare(b.key) < 0
KeyLess(a, b) == KeyRank(a.key) < KeyRank(b.key)

\* Array.prototype.sort((a, b) => a.key.localeCompare(b.key)), stable
RECURSIVE InsertKey(_, _)
InsertKey(x, s) ==
  IF s = <<>> THEN <<x>>
  ELSE IF KeyLess(x, s[1]) THEN <<x>> \o s
  ELSE <<s[1]>> \o InsertKey(x, Tail(s))

RECURSIVE SortKeys(_)
SortKeys(s) ==
  IF s = <<>> THEN <<>>
  ELSE InsertKey(s[Len(s)], SortKeys(SubSeq(s, 1, Len(s) - 1)))

\* [...new Set(list)]: the first occurrence of each element, in order
RECURSIVE Dedupe(_)
Dedupe(list) ==
  IF list = <<>> THEN <<>>
  ELSE LET init == Dedupe(SubSeq(list, 1, Len(list) - 1))
           last == list[Len(list)]
       IN IF last \in Range(init) THEN init ELSE Append(init, last)

\* The record extractFromCode pushes for a message found in filePath.
KeyRecord(message, filePath) ==
  LET metadata == parseMessage(message)
  IN [key |-> message,
      files |-> <<filePath>>,
      namespace |-> <<>>,
      variables |-> metadata.variables,
      hasPlural |-> metadata.hasPlural,
      hasDate |-> metadata.hasDate]

\* keyMap after keys1.forEach: key text -> record, later records replacing earlier
RECURSIVE AddKeys1(_, _)
AddKeys1(keyMap, keys1) ==
  IF keys1 = <<>> THEN keyMap
  ELSE LET key == keys1[1]
           rest == [k \in DOMAIN keyMap \ {key.key} |-> keyMap[k]]
       IN AddKeys1(rest @@ (key.key :> key), Tail(keys1))

\* keys2.forEach without the union of the file lists: a key already in keyMap
\* keeps its record as it is
MergeKeys2KeepFiles(keyMap, keys2) ==
  LET fresh == {keys2[i].key : i \in 1..Len(keys2)} \ DOMAIN keyMap
  IN keyMap @@ [k \in fresh |->
                  keys2[CHOOSE i \in 1..Len(keys2) : keys2[i].key = k]]

\* keys2.forEach with the later record replacing the one already in keyMap
RECURSIVE MergeKeys2LastWins(_, _)
MergeKeys2LastWins(keyMap, keys2) ==
  IF keys2 = <<>> THEN keyMap
  ELSE LET key == keys2[1]
           rest == [k \in DOMAIN keyMap \ {key.key} |-> keyMap[k]]
       IN MergeKeys2LastWins(rest @@ (key.key :> key), Tail(keys2))

\* keyMap after keys2.forEach
RECURSIVE MergeKeys2(_, _)
MergeKeys2(keyMap, keys2) ==
  IF keys2 = <<>> THEN keyMap
  ELSE LET key == keys2[1]
       IN IF key.key \in DOMAIN keyMap
          THEN LET existing == keyMap[key.key]
                   mergedFiles == Dedupe(existing.files \o key.files)
               IN MergeKeys2(
                    [keyMap EXCEPT ![key.key].files = SortStrings(mergedFiles)],
                    Tail(keys2))
          ELSE MergeKeys2(keyMap @@ (key.key :> key), Tail(keys2))

\* Array.from(keyMap.values()) in some order; the final sort fixes the order
RECURSIVE MapValues(_)
MapValues(keyMap) ==
  IF DOMAIN keyMap = {} THEN <<>>
  ELSE LET k == CHOOSE k \in DOMAIN keyMap : TRUE
       IN <<keyMap[k]>> \o MapValues([j \in DOMAIN keyMap \ {k} |-> keyMap[j]])

mergeKeys(keys1, keys2) ==
  LET keyMap == MergeKeys2(AddKeys1(<<>>, keys1), keys2)
      values == MapValues(keyMap)
  IN SortKeys([i \in 1..Len(values) |->
                 [values[i] EXCEPT !.files = SortStrings(values[i].files)]])

----------------------------------------------------------------------------
(* utils/namespace.js: grouping                                             *)

\* key.namespace || "common"
NamespaceOf(key) == IF key.namespace = <<>> THEN Common ELSE key.namespace

\* the elements of a set of strings as a sorted sequence
RECURSIVE SortStringSet(_)
SortStringSet(S) ==
  IF S = {} THEN <<>>
  ELSE LET m == CHOOSE m \in S : \A x \in S : ~StrLess(x, m)
       IN <<m>> \o SortStringSet(S \ {m})

getNamespaces(keys) ==
  SortStringSet({NamespaceOf(keys[i]) : i \in 1..Len(keys)})

\* groupByNamespace(keys).get(namespace) || []
groupByNamespace(keys, namespace) ==
  SortKeys(SelectSeq(keys, LAMBDA key : NamespaceOf(key) = namespace))

----------------------------------------------------------------------------
(* File contents.  A file is a sequence of lines, each line a tuple whose   *)
(* first element names the line's fixed text and whose other elements are   *)
(* the variable parts of the line, character by character.                  *)

RECURSIVE Flatten(_)
Flatten(ss) == IF ss = <<>> THEN <<>> ELSE ss[1] \o Flatten(Tail(ss))

\* an escaping that leaves the backslash alone
EscapeCharKeepsBackslash(c) ==
  CASE c = "\"" -> <<"\\", "\"">>
    [] c = "'" -> <<"\\", "'">>
    [] c = "\n" -> <<"\\", "n">>
    [] c = "\r" -> <<"\\", "r">>
    [] c = "\t" -> <<"\\", "t">>
    [] c = "\f" -> <<>>
    [] OTHER -> <<c>>

\* utils/security.js: escapeString
EscapeChar(c) ==
  CASE c = "\\" -> <<"\\", "\\">>
    [] c = "\"" -> <<"\\", "\"">>
    [] c = "'" -> <<"\\", "'">>
    [] c = "\n" -> <<"\\", "n">>
    [] c = "\r" -> <<"\\", "r">>
    [] c = "\t" -> <<"\\", "t">>
    [] c = "\f" -> <<>>
    [] OTHER -> <<c>>

escapeString(str) == Flatten([i \in 1..Len(str) |-> EscapeChar(str[i])])

\* The value of a JavaScript string literal with the given source characters.
RECURSIVE UnescapeJS(_)
UnescapeJS(s) ==
  IF s = <<>> THEN <<>>
  ELSE IF s[1] = "\\" /\ Len(s) >= 2
       THEN << CASE s[2] = "n" -> "\n"
                 [] s[2] = "r" -> "\r"
                 [] s[2] = "t" -> "\t"
                 [] s[2] = "f" -> "\f"
                 [] OTHER -> s[2] >> \o UnescapeJS(SubSeq(s, 3, Len(s)))
       ELSE <<s[1]>> \o UnescapeJS(Tail(s))

\* JSON.stringify of a string, without the enclosing quotes
JsonEscapeChar(c) ==
  CASE c = "\\" -> <<"\\", "\\">>
    [] c = "\"" -> <<"\\", "\"">>
    [] c = "\n" -> <<"\\", "n">>
    [] c = "\r" -> <<"\\", "r">>
    [] c = "\t" -> <<"\\", "t">>
    [] c = "\f" -> <<"\\", "f">>
    [] OTHER -> <<c>>

JsonQuote(str) == Flatten([i \in 1..Len(str) |-> JsonEscapeChar(str[i])])

\* A translation mapping (a JavaScript object) is a sequence of <<key, value>>
\* pairs with distinct keys, in property order.
Has(mapping, k) == \E i \in 1..Len(mapping) : mapping[i][1] = k

Get(mapping, k) ==
  mapping[CHOOSE i \in 1..Len(mapping) : mapping[i][1] = k][2]

MapKeys(mapping) == {mapping[i][1] : i \in 1..Len(mapping)}

\* obj[k] = v
Put(mapping, k, v) ==
  IF Has(mapping, k)
  THEN [i \in 1..Len(mapping) |->
          IF mapping[i][1] = k THEN <<k, v>> ELSE mapping[i]]
  ELSE Append(mapping, <<k, v>>)

\* a merge that keeps the second object alone
SpreadSecondOnly(a, b) == b

\* { ...b, ...a } read as { ...a, ...b }: the values of a win
SpreadFirstWins(a, b) == a \o SelectSeq(b, LAMBDA p : ~Has(a, p[1]))

\* { ...a, ...b }
RECURSIVE Spread(_, _)
Spread(a, b) ==
  IF b = <<>> THEN a ELSE Spread(Put(a, b[1][1], b[1][2]), Tail(b))

\* the "key": "value" lines of JSON.stringify(mapping, null, 2)
JsonLines(mapping) ==
  [i \in 1..Len(mapping) |->
     <<"kv", JsonQuote(mapping[i][1]), JsonQuote(mapping[i][2]),
       IF i < Len(mapping) THEN "," ELSE "">>]

----------------------------------------------------------------------------
(* generators/catalog-generator.js                                          *)

toRelativePath(absolutePath) == PathRelative(Cwd, absolutePath)

\* the grouping label of a key: its sorted relative paths joined by " | "
FileList(key) ==
  Join(SortStrings([i \in 1..Len(key.files) |-> toRelativePath(key.files[i])]),
       <<" ", "|", " ">>)

\* Object.keys(groupKeysByFile(keys)).sort()
sortedFileGroups(keys) == SortStringSet({FileList(keys[i]) : i \in 1..Len(keys)})

\* groupKeysByFile(keys)[file].sort(...)
groupKeysByFile(keys, file) ==
  SortKeys(SelectSeq(keys, LAMBDA key : FileList(key) = file))

\* existingTranslations[key] is truthy
\* the property names every object inherits from Object.prototype (one of them)
ObjectPrototypeKeys == {<<"c", "o", "n", "s", "t", "r", "u", "c", "t", "o", "r">>}

\* existingTranslations[k]: an own property, an inherited function, or undefined
Lookup(existingTranslations, k) ==
  IF Has(existingTranslations, k)
  THEN [kind |-> "string", value |-> Get(existingTranslations, k)]
  ELSE IF k \in ObjectPrototypeKeys
       THEN [kind |-> "function", value |-> <<>>]
       ELSE [kind |-> "undefined", value |-> <<>>]

\* existingTranslations[k] is truthy
Truthy(existingTranslations, k) ==
  LET v == Lookup(existingTranslations, k)
  IN v.kind = "function" \/ (v.kind = "string" /\ v.value # <<>>)

\* escapeString(existingTranslations[k]): "" when the value is not a string
EscapedLookup(existingTranslations, k) ==
  LET v == Lookup(existingTranslations, k)
  IN IF v.kind = "string" THEN escapeString(v.value) ELSE <<>>

\* the lines generateJS emits for one key
KeyLines(key, existingTranslations, isSourceLocale) ==
  LET value == IF isSourceLocale THEN escapeString(key.key)
               ELSE IF Truthy(existingTranslations, key.key)
                    THEN EscapedLookup(existingTranslations, key.key)
                    ELSE <<>>
  IN (IF key.variables # <<>>
        THEN << <<"variables", Join(key.variables, <<",", " ">>)>> >> ELSE <<>>)
     \o (IF key.hasPlural THEN << <<"plural">> >> ELSE <<>>)
     \o (IF key.hasDate THEN << <<"date">> >> ELSE <<>>)
     \o << <<"kv", escapeString(key.key), value, ",">> >>

\* the lines generateJS emits for one file group
GroupLines(keys, file, existingTranslations, isSourceLocale) ==
  LET sortedKeys == groupKeysByFile(keys, file)
  IN << <<"comment", file>> >>
     \o Flatten([i \in 1..Len(sortedKeys) |->
                   KeyLines(sortedKeys[i], existingTranslations, isSourceLocale)])
     \o << <<"blank">> >>

\* output.replace(/,\n\n$/g, "\n")
StripTrailingComma(lines) ==
  LET n == Len(lines)
  IN IF n >= 2 /\ lines[n] = <<"blank">> /\ lines[n - 1][1] = "kv"
     THEN SubSeq(lines, 1, n - 2)
          \o << <<"kv", lines[n - 1][2], lines[n - 1][3], "">> >>
     ELSE lines

generateJS(keys, existingTranslations, header, isSourceLocale) ==
  LET groups == sortedFileGroups(keys)
  IN StripTrailingComma(
       << <<"open", header, "">> >>
       \o Flatten([g \in 1..Len(groups) |->
                     GroupLines(keys, groups[g], existingTranslations,
                                isSourceLocale)]))
     \o << <<"close">> >>

\* the properties of the object generateJSON builds that JSON.stringify
\* serializes: a property whose value is a function is left out
JsonTranslations(keys, existingTranslations, isSourceLocale) ==
  LET sortedKeys == SortKeys(keys)
      serialized ==
        SelectSeq(sortedKeys,
                  LAMBDA key :
                    isSourceLocale
                    \/ Lookup(existingTranslations, key.key).kind # "function")
  IN [i \in 1..Len(serialized) |->
        <<serialized[i].key,
          IF isSourceLocale THEN serialized[i].key
          ELSE IF Truthy(existingTranslations, serialized[i].key)
               THEN Get(existingTranslations, serialized[i].key)
               ELSE <<>> >>]

\* JSON.stringify(mapping, null, 2) followed by the text eof
JsonText(mapping, eof) ==
  IF mapping = <<>> THEN << <<"jempty", eof>> >>
  ELSE << <<"jopen">> >> \o JsonLines(mapping) \o << <<"jclose", eof>> >>

generateJSON(keys, existingTranslations, isSourceLocale) ==
  JsonText(JsonTranslations(keys, existingTranslations, isSourceLocale), "")

\* str.replace(/[-\.]/g, "_")
sanitizeVarName(str) ==
  [i \in 1..Len(str) |-> IF str[i] \in {"-", "."} THEN "_" ELSE str[i]]

generateLocaleIndex(locale, nss, format) ==
  LET sortedNamespaces == SortStrings(nss)
      n == Len(sortedNamespaces)
      importPath(namespace) ==
        <<".", "/">> \o locale \o <<".">> \o namespace
        \o (IF format = <<"j", "s", "o", "n">>
            THEN <<".", "j", "s", "o", "n">> ELSE <<>>)
  IN [i \in 1..n |->
        <<"import", sanitizeVarName(sortedNamespaces[i]),
          importPath(sortedNamespaces[i])>>]
     \o << <<"blank">>, <<"mergecomment">>, <<"export">> >>
     \o [i \in 1..n |->
           <<"spread", sanitizeVarName(sortedNamespaces[i]),
             IF i < n THEN "," ELSE "">>]
     \o << <<"close">> >>

----------------------------------------------------------------------------
(* extractor.js: reading and writing translation files                      *)

\* path.extname(fileName): from the last "." to the end, "" if there is none
RECURSIVE LastDot(_, _)
LastDot(s, i) ==
  IF i = 0 THEN 0 ELSE IF s[i] = "." THEN i ELSE LastDot(s, i - 1)

extname(fileName) ==
  LET d == LastDot(fileName, Len(fileName))
  IN IF d <= 1 THEN <<>> ELSE SubSeq(fileName, d, Len(fileName))

JsonExt == <<".", "j", "s", "o", "n">>

TranslationExts == { <<".", "j", "s">>, <<".", "t", "s">>, JsonExt }

\* the text is JSON: what JSON.stringify and fs.writeJSON produce
IsJsonText(content) == content # <<>> /\ content[1][1] \in {"jopen", "jempty"}

\* the text is a module whose export is one object literal
IsObjectModule(content) == content # <<>> /\ content[1][1] \in {"open", "empty"}

\* the object a text's "key": "value" lines denote
RECURSIVE ObjectOf(_)
ObjectOf(content) ==
  IF content = <<>> THEN <<>>
  ELSE LET init == ObjectOf(SubSeq(content, 1, Len(content) - 1))
           line == content[Len(content)]
       IN IF line[1] = "kv"
          THEN Put(init, UnescapeJS(line[2]), UnescapeJS(line[3]))
          ELSE init

\* the JSON text null
NullText == << <<"jnull">> >>

\* loadTranslationFile: [ok |-> FALSE] stands for the rejected promise; the
\* value null that fs.readJSON gives for the text null has no properties
loadTranslationFile(filePath, content) ==
  IF extname(filePath) = JsonExt
  THEN IF IsJsonText(content)
       THEN [ok |-> TRUE, map |-> ObjectOf(content)]
       ELSE IF content = NullText
            THEN [ok |-> TRUE, map |-> <<>>]
            ELSE [ok |-> FALSE, map |-> <<>>]
  ELSE IF IsObjectModule(content) \/ IsJsonText(content)
       THEN [ok |-> TRUE, map |-> ObjectOf(content)]
       ELSE [ok |-> TRUE, map |-> <<>>]

\* config.header || "export default"
MigrationHeader == "export default"

\* the text writeTranslationFile writes
writeTranslationFile(filePath, mapping) ==
  IF extname(filePath) = JsonExt
  THEN JsonText(mapping, "\n")
  ELSE IF mapping = <<>>
       THEN << <<"empty", MigrationHeader>> >>
       ELSE << <<"open", MigrationHeader, " ">> >> \o JsonLines(mapping)
            \o << <<"close">> >>

\* a shouldWriteFile that never skips
shouldWriteFileAlways(folder, filePath, newContent) == TRUE

\* shouldWriteFile, given the output folder
shouldWriteFile(folder, filePath, newContent) ==
  IF filePath \notin DOMAIN folder THEN TRUE
  ELSE folder[filePath] # newContent

----------------------------------------------------------------------------
(* The configuration and the bounds of the model                            *)

\* config.locales and config.sourceLocale
Locales == << <<"e", "n">>, <<"p", "t">> >>
SourceLocale == <<"e", "n">>

\* config.header || "module.exports="
CatalogHeader == "module.exports="

FormatJs == <<"j", "s">>
FormatJson == <<"j", "s", "o", "n">>

\* the number of extract() runs a behaviour holds
MaxRuns == 2

Perms(S) ==
  {f \in [1..Cardinality(S) -> S] : \A i, j \in 1..Cardinality(S) : f[i] = f[j] => i = j}

\* an fs.remove that leaves the file in place
RemoveNothing(folder, name) == folder

\* the folder with one file removed, written or renamed
Remove(folder, name) == [n \in DOMAIN folder \ {name} |-> folder[n]]

WriteFile(folder, name, content) ==
  [n \in DOMAIN folder \cup {name} |-> IF n = name THEN content ELSE folder[n]]

ZeroStats ==
  [generated |-> 0, skipped |-> 0, preserved |-> 0, newKeys |-> 0, totalKeys |-> 0]

----------------------------------------------------------------------------
(* extractor.js: migrateInvalidFileNames                                    *)

\* invalidCharsPattern.test(fileName)
HasInvalidChar(fileName) == \E i \in 1..Len(fileName) : fileName[i] \in BracketChars

EndsWith(s, suffix) ==
  Len(s) >= Len(suffix) /\ SubSeq(s, Len(s) - Len(suffix) + 1, Len(s)) = suffix

\* the sanitized name migrateInvalidFileNames builds for fileName
newFileName(fileName) ==
  LET ext == extname(fileName)
      parts == Split(fileName, ".")
      locale == parts[1]
      namespaceWithExt == Join(Tail(parts), <<".">>)
      namespace == IF EndsWith(namespaceWithExt, ext)
                   THEN SubSeq(namespaceWithExt, 1, Len(namespaceWithExt) - Len(ext))
                   ELSE namespaceWithExt
  IN locale \o <<".">> \o sanitizeNamespace(namespace) \o ext

\* whether the first loop of migrateInvalidFileNames records fileName
NeedsMigration(fileName) ==
  /\ HasInvalidChar(fileName)
  /\ extname(fileName) \in TranslationExts
  /\ newFileName(fileName) # fileName

\* extract() up to the end of the first loop of migrateInvalidFileNames;
\* fs.readdir returns the names in an order the file system chooses.
MigratePlan ==
  /\ pc = "idle"
  /\ runs < MaxRuns
  /\ \E order \in Perms({n \in DOMAIN disk : NeedsMigration(n)}) :
       migrations' = [i \in 1..Len(order) |->
                        [oldPath |-> order[i], newPath |-> newFileName(order[i])]]
  /\ pc' = "migrate"
  /\ runs' = runs + 1
  /\ preDisk' = disk
  /\ writes' = <<>>
  /\ stats' = ZeroStats
  /\ UNCHANGED <<config, tree, disk, files, allKeys, namespaces, li, ni, preRun,
                 quiet, edits, mergeVars, callVars>>

\* an iteration that leaves the folder as it is
MigratedNothing(folder, m) == folder

\* the output folder after one iteration of the second loop
Migrated(folder, m) ==
  IF m.oldPath \notin DOMAIN folder THEN folder
  ELSE IF m.newPath \in DOMAIN folder
  THEN LET oldContent == loadTranslationFile(m.oldPath, folder[m.oldPath])
           newContent == loadTranslationFile(m.newPath, folder[m.newPath])
       IN IF ~oldContent.ok \/ ~newContent.ok THEN folder
          ELSE Remove(
                 WriteFile(folder, m.newPath,
                           writeTranslationFile(m.newPath,
                                                Spread(oldContent.map, newContent.map))),
                 m.oldPath)
  ELSE Remove(WriteFile(folder, m.newPath, folder[m.oldPath]), m.oldPath)

\* one iteration of the second loop of migrateInvalidFileNames
MigrateStep ==
  /\ pc = "migrate"
  /\ migrations # <<>>
  /\ disk' = Migrated(disk, migrations[1])
  /\ migrations' = Tail(migrations)
  /\ writes' = IF disk' # disk
               THEN Append(writes, <<"migrate", migrations[1].newPath>>)
               ELSE writes
  /\ UNCHANGED <<config, tree, pc, files, allKeys, namespaces, li, ni, stats,
                 preDisk, preRun, quiet, runs, edits, mergeVars, callVars>>

----------------------------------------------------------------------------
(* extractor.js: extract                                                    *)

\* extractFromFile(safePath) with the namespace applied to each key
KeysOfFile(strategy, sourceTree, file, safePath) ==
  [i \in 1..Len(sourceTree[file]) |->
     [KeyRecord(sourceTree[file][i], safePath)
        EXCEPT !.namespace = generate(strategy, safePath)]]

\* what the tree holds for a path fs.readFileSync throws on (a directory, a
\* file without read permission): no readable file gives an empty message
Unreadable == << <<>> >>

\* the loop over the file list with the try block left at the first throw
RECURSIVE ExtractAllAborting(_, _, _)
ExtractAllAborting(strategy, sourceTree, fileList) ==
  IF fileList = <<>> THEN <<>>
  ELSE LET file == fileList[1]
           safePath == validatePath(file, Cwd)
       IN IF ~safePath.ok \/ sourceTree[file] = Unreadable THEN <<>>
          ELSE mergeKeys(KeysOfFile(strategy, sourceTree, file, safePath.path),
                         ExtractAllAborting(strategy, sourceTree, Tail(fileList)))

\* allKeys after the loop over the file list: a file whose validatePath or
\* readFileSync throws is skipped by the catch inside the loop
RECURSIVE ExtractAll(_, _, _)
ExtractAll(strategy, sourceTree, fileList) ==
  IF fileList = <<>> THEN <<>>
  ELSE LET init == ExtractAll(strategy, sourceTree,
                              SubSeq(fileList, 1, Len(fileList) - 1))
           file == fileList[Len(fileList)]
           safePath == validatePath(file, Cwd)
       IN IF ~safePath.ok \/ sourceTree[file] = Unreadable THEN init
          ELSE mergeKeys(init, KeysOfFile(strategy, sourceTree, file, safePath.path))

\* the file list as the glob returned it
SortFilesAsGlobbed(fileList) == fileList

\* files.sort()
SortFiles(fileList) == SortStrings(fileList)

\* glob, files.sort(), the extract-and-merge loop, getNamespaces; the glob
\* returns the matching files in any order.
Scan ==
  /\ pc = "migrate"
  /\ migrations = <<>>
  /\ \E order \in Perms(DOMAIN tree) :
       /\ files' = SortFiles(order)
       /\ allKeys' = ExtractAll(config.strategy, tree, files')
  /\ namespaces' = getNamespaces(allKeys')
  /\ li' = 1
  /\ ni' = 1
  /\ pc' = IF namespaces' = <<>> THEN "done" ELSE "generate"
  /\ UNCHANGED <<config, tree, disk, migrations, stats, writes, preDisk, preRun,
                 quiet, runs, edits, mergeVars, callVars>>

\* existingTranslations of one (locale, namespace) pair
ExistingTranslations(folder, outputPath) ==
  IF outputPath \in DOMAIN folder
     /\ loadTranslationFile(outputPath, folder[outputPath]).ok
  THEN loadTranslationFile(outputPath, folder[outputPath]).map
  ELSE <<>>

\* the content extract() renders for one (locale, namespace) pair
CatalogContent(format, keys, existingTranslations, locale) ==
  IF format = FormatJson
  THEN generateJSON(keys, existingTranslations, locale = SourceLocale)
  ELSE generateJS(keys, existingTranslations, CatalogHeader, locale = SourceLocale)

\* existingTranslations is null after the try block: loadTranslationFile gave
\* null, Object.keys(null) threw and the catch kept the assignment
ReadsNull(folder, outputPath) ==
  /\ outputPath \in DOMAIN folder
  /\ extname(outputPath) = JsonExt
  /\ folder[outputPath] = NullText

\* one iteration of the loop over locales and namespaces; pc = "failed" is
\* extract() rejecting: with existingTranslations null, generateJSON throws on
\* null[key.key] for a non-source locale, and for the source locale the file
\* is written and the count of new keys throws on the same expression
GenStep ==
  /\ pc = "generate"
  /\ LET locale == Locales[li]
         namespace == namespaces[ni]
         keys == groupByNamespace(allKeys, namespace)
         outputPath == getFileName(config.strategy, namespace, locale, config.format)
         existingTranslations == ExistingTranslations(disk, outputPath)
         content == CatalogContent(config.format, keys, existingTranslations, locale)
         loaded == outputPath \in DOMAIN disk
                   /\ loadTranslationFile(outputPath, disk[outputPath]).ok
         preserved == IF loaded THEN stats.preserved + Len(existingTranslations)
                      ELSE stats.preserved
         newKeysCount == Cardinality({i \in 1..Len(keys) :
                                        ~Truthy(existingTranslations, keys[i].key)})
     IN IF ReadsNull(disk, outputPath)
        THEN /\ pc' = "failed"
             /\ IF locale = SourceLocale
                THEN /\ disk' = WriteFile(disk, outputPath, content)
                     /\ writes' = Append(writes, <<"catalog", outputPath>>)
                ELSE UNCHANGED <<disk, writes>>
             /\ UNCHANGED <<li, ni, stats>>
        ELSE /\ IF ~shouldWriteFile(disk, outputPath, content)
                THEN /\ stats' = [stats EXCEPT !.skipped = @ + 1,
                                               !.preserved = preserved]
                     /\ UNCHANGED <<disk, writes>>
                ELSE /\ disk' = WriteFile(disk, outputPath, content)
                     /\ writes' = Append(writes, <<"catalog", outputPath>>)
                     /\ stats' = [stats EXCEPT !.generated = @ + 1,
                                               !.preserved = preserved,
                                               !.newKeys = @ + newKeysCount,
                                               !.totalKeys = @ + Len(keys)]
             /\ IF ni < Len(namespaces)
                THEN ni' = ni + 1 /\ UNCHANGED <<li, pc>>
                ELSE IF li < Len(Locales)
                     THEN ni' = 1 /\ li' = li + 1 /\ UNCHANGED pc
                     ELSE /\ ni' = 1
                          /\ li' = 1
                          /\ pc' = IF Len(namespaces) > 1 THEN "index" ELSE "done"
  /\ UNCHANGED <<config, tree, migrations, files, allKeys, namespaces, preDisk,
                 preRun, quiet, runs, edits, mergeVars, callVars>>

\* the aggregator's file name
indexFileName(locale, format) == locale \o <<".">> \o format

\* one iteration of the loop of generateLocaleIndexFiles
IndexStep ==
  /\ pc = "index"
  /\ LET locale == Locales[li]
         indexPath == indexFileName(locale, config.format)
         content == generateLocaleIndex(locale, namespaces, config.format)
     IN IF ~shouldWriteFile(disk, indexPath, content)
        THEN /\ stats' = [stats EXCEPT !.skipped = @ + 1]
             /\ UNCHANGED <<disk, writes>>
        ELSE /\ disk' = WriteFile(disk, indexPath, content)
             /\ writes' = Append(writes, <<"index", indexPath>>)
             /\ stats' = [stats EXCEPT !.generated = @ + 1]
  /\ IF li < Len(Locales)
     THEN li' = li + 1 /\ UNCHANGED pc
     ELSE li' = 1 /\ pc' = "done"
  /\ UNCHANGED <<config, tree, migrations, files, allKeys, namespaces, ni, preDisk,
                 preRun, quiet, runs, edits, mergeVars, callVars>>

\* extract() returns
Finish ==
  /\ pc = "done"
  /\ pc' = "idle"
  /\ preRun' = [config |-> config, tree |-> tree, disk |-> disk]
  /\ quiet' = TRUE
  /\ UNCHANGED <<config, tree, disk, migrations, files, allKeys, namespaces, li, ni,
                 stats, writes, preDisk, runs, edits, mergeVars, callVars>>

----------------------------------------------------------------------------
(* The environment: the source tree, the user's edits, the initial folder   *)

KCancel == KeyOrder[1]
KConstructor == KeyOrder[2]
KHi == KeyOrder[3]
KSave == KeyOrder[4]

\* the key texts written in the source tree of a run
RunKeyTexts == {KCancel, KHi, KSave}

\* translated values a user writes: a plain one and one with characters to escape
VPlain == <<"S", "i", "m">>
VQuoted == <<"\"", "N", "\n", "'">>

PApp == <<"s","r","c","/","A","p","p",".","v","u","e">>
PHome == <<"s","r","c","/","p","a","g","e","s","/","H","o","m","e",".","v","u","e">>
PLogin ==
  <<"s","r","c","/","f","e","a","t","u","r","e","s","/","a","u","t","h","/",
    "L","o","g","i","n",".","v","u","e">>

\* the messages extractFromFile returns for each source file of the model
SourceFiles ==
  (PApp :> <<KHi>>) @@ (PHome :> <<KSave, KCancel>>) @@ (PLogin :> <<KSave>>)

Trees ==
  {[f \in S |-> SourceFiles[f]] : S \in SUBSET (DOMAIN SourceFiles) \ {{}}}

NsPages == <<"p", "a", "g", "e", "s">>
NsBracketId == <<"p", "a", "g", "e", "s", ".", "[", "i", "d", "]">>
NsId == <<"p", "a", "g", "e", "s", ".", "i", "d">>

\* a file name of the output folder
FileName(locale, namespace, format) ==
  IF namespace = <<>> THEN locale \o <<".">> \o format
  ELSE locale \o <<".">> \o namespace \o <<".">> \o format

\* a catalog as a user or an earlier version wrote it: header, object, no comments
ManualCatalog(name, mapping) == writeTranslationFile(name, mapping)

\* the output folders a first run can find
InitDisks(format) ==
  LET pt == Locales[2]
      flat == FileName(pt, <<>>, format)
      pages == FileName(pt, NsPages, format)
      old == FileName(pt, NsBracketId, format)
      target == FileName(pt, NsId, format)
  IN { <<>>,
       (flat :> ManualCatalog(flat, << <<KSave, VPlain>>, <<KHi, VQuoted>> >>)),
       (pages :> ManualCatalog(pages, << <<KSave, VQuoted>>, <<KCancel, VPlain>> >>)),
       (old :> ManualCatalog(old, << <<KSave, VPlain>> >>))
         @@ (target :> ManualCatalog(target, << <<KSave, VQuoted>> >>)) }

RunStrategies == {"flat", "directory", "feature"}

Formats == {FormatJs, FormatJson}

Init ==
  /\ config \in [strategy : RunStrategies, format : Formats]
  /\ tree \in Trees
  /\ disk \in InitDisks(config.format)
  /\ pc = "idle"
  /\ migrations = <<>>
  /\ files = <<>>
  /\ allKeys = <<>>
  /\ namespaces = <<>>
  /\ li = 1
  /\ ni = 1
  /\ stats = ZeroStats
  /\ writes = <<>>
  /\ preDisk = disk
  /\ preRun = [config |-> config, tree |-> tree, disk |-> disk]
  /\ quiet = FALSE
  /\ runs = 0
  /\ edits = 0
  /\ mA = <<>>
  /\ mB = <<>>
  /\ mC = <<>>
  /\ mL = [done |-> FALSE, keys |-> <<>>]
  /\ mR = [done |-> FALSE, keys |-> <<>>]
  /\ arg = <<>>
  /\ res = [done |-> FALSE, value |-> <<>>]

\* a source file is added to or removed from the tree between two runs
EditSource ==
  /\ pc = "idle"
  /\ quiet
  /\ \E t \in Trees :
       /\ \/ \E f \in DOMAIN t : DOMAIN t \ {f} = DOMAIN tree /\ f \notin DOMAIN tree
          \/ \E f \in DOMAIN tree : DOMAIN tree \ {f} = DOMAIN t /\ f \notin DOMAIN t
       /\ tree' = t
  /\ quiet' = FALSE
  /\ edits' = edits + 1
  /\ UNCHANGED <<config, disk, pc, migrations, files, allKeys, namespaces, li, ni,
                 stats, writes, preDisk, preRun, runs, mergeVars, callVars>>

\* the splitting strategy of the configuration is changed between two runs
ChangeStrategy ==
  /\ pc = "idle"
  /\ quiet
  /\ \E st \in RunStrategies \ {config.strategy} :
       config' = [config EXCEPT !.strategy = st]
  /\ quiet' = FALSE
  /\ edits' = edits + 1
  /\ UNCHANGED <<tree, disk, pc, migrations, files, allKeys, namespaces, li, ni,
                 stats, writes, preDisk, preRun, runs, mergeVars, callVars>>

\* the text of a catalog with the value of key k replaced by v
SetValue(content, k, v) ==
  [i \in 1..Len(content) |->
     IF content[i][1] = "kv" /\ UnescapeJS(content[i][2]) = k
     THEN <<"kv", content[i][2], JsonQuote(v), content[i][4]>>
     ELSE content[i]]

IsLocaleFile(name, locale) == StartsWith(name, locale \o <<".">>)

\* a translator writes a value into a catalog of a non-source locale
Translate ==
  /\ pc = "idle"
  /\ quiet
  /\ \E name \in DOMAIN disk, k \in RunKeyTexts :
       /\ ~IsLocaleFile(name, SourceLocale)
       /\ Has(loadTranslationFile(name, disk[name]).map, k)
       /\ disk' = [disk EXCEPT ![name] = SetValue(@, k, VPlain)]
       /\ disk' # disk
  /\ quiet' = FALSE
  /\ edits' = edits + 1
  /\ UNCHANGED <<config, tree, pc, migrations, files, allKeys, namespaces, li, ni,
                 stats, writes, preDisk, preRun, runs, mergeVars, callVars>>

Next ==
  \/ MigratePlan
  \/ MigrateStep
  \/ Scan
  \/ GenStep
  \/ IndexStep
  \/ Finish
  \/ EditSource
  \/ ChangeStrategy
  \/ Translate

Spec == Init /\ [][Next]_vars

----------------------------------------------------------------------------
(* mergeKeys on three key lists, merged in the two groupings                *)

\* the longest key list a source file contributes
MaxMergeKeys == 2

\* the lists of distinct key texts extractFromCode can return
KeySeqs ==
  {s \in UNION {[1..n -> RunKeyTexts] : n \in 0..MaxMergeKeys} :
     \A i, j \in DOMAIN s : s[i] = s[j] => i = j}

\* the key lists extract() gets from one of the given files
KeyLists(sourceFiles) ==
  {KeysOfFile("directory", (f :> ks), f, validatePath(f, Cwd).path) :
     f \in sourceFiles, ks \in KeySeqs}

InitMerge ==
  /\ config = [strategy |-> "directory", format |-> FormatJs]
  /\ tree = SourceFiles
  /\ disk = <<>>
  /\ pc = "idle"
  /\ migrations = <<>>
  /\ files = <<>>
  /\ allKeys = <<>>
  /\ namespaces = <<>>
  /\ li = 1
  /\ ni = 1
  /\ stats = ZeroStats
  /\ writes = <<>>
  /\ preDisk = disk
  /\ preRun = [config |-> config, tree |-> tree, disk |-> disk]
  /\ quiet = FALSE
  /\ runs = 0
  /\ edits = 0
  /\ mA \in KeyLists({PApp, PHome})
  /\ mB \in KeyLists({PHome, PLogin})
  /\ mC \in KeyLists({PApp, PLogin})
  /\ mL = [done |-> FALSE, keys |-> <<>>]
  /\ mR = [done |-> FALSE, keys |-> <<>>]
  /\ arg = <<>>
  /\ res = [done |-> FALSE, value |-> <<>>]

\* mergeKeys(mergeKeys(A, B), C)
MergeLeft ==
  /\ ~mL.done
  /\ mL' = [done |-> TRUE, keys |-> mergeKeys(mergeKeys(mA, mB), mC)]
  /\ UNCHANGED <<runVars, mA, mB, mC, mR, callVars>>

\* mergeKeys(A, mergeKeys(B, C))
MergeRight ==
  /\ ~mR.done
  /\ mR' = [done |-> TRUE, keys |-> mergeKeys(mA, mergeKeys(mB, mC))]
  /\ UNCHANGED <<runVars, mA, mB, mC, mL, callVars>>

NextMerge == MergeLeft \/ MergeRight

SpecMerge == InitMerge /\ [][NextMerge]_vars

----------------------------------------------------------------------------
(* migrateInvalidFileNames on its own, over the folders it can find         *)

MigUser == <<"p","t",".","p","a","g","e","s",".","[","u","s","e","r","I","d","]",".","j","s">>
MigPost == <<"p","t",".","p","a","g","e","s",".","[","p","o","s","t","I","d","]",".","j","s">>
MigParam == <<"p","t",".","p","a","g","e","s",".","p","a","r","a","m",".","j","s">>
MigIdJson == <<"p","t",".","p","a","g","e","s",".","[","i","d","]",".","j","s","o","n">>
MigIdJsonTarget == <<"p","t",".","p","a","g","e","s",".","i","d",".","j","s","o","n">>
MigClean == <<"p","t",".","j","s">>
MigNotes == <<"n","o","t","e","s",".","[","x","]",".","t","x","t">>
MigLocale == <<"[","x","]",".","a",".","j","s">>

\* a file that is neither JSON nor a module exporting an object
Unparsable == << <<"text">> >>

\* the folders with the file absent or holding one of the contents
Optional(name, contents) == {<<>>} \cup {(name :> c) : c \in contents}

MigDisks ==
  {a @@ b @@ c @@ d @@ e @@ f @@ g @@ h :
     a \in Optional(MigUser, {ManualCatalog(MigUser, << <<KSave, VPlain>> >>)}),
     b \in Optional(MigPost,
                    {ManualCatalog(MigPost, << <<KSave, VQuoted>>, <<KHi, VPlain>> >>)}),
     c \in Optional(MigParam,
                    {ManualCatalog(MigParam,
                                   << <<KCancel, VPlain>>, <<KSave, VQuoted>> >>)}),
     d \in Optional(MigIdJson,
                    {ManualCatalog(MigIdJson, << <<KSave, VPlain>> >>), Unparsable}),
     e \in Optional(MigIdJsonTarget,
                    {ManualCatalog(MigIdJsonTarget,
                                   << <<KSave, VQuoted>>, <<KHi, VPlain>> >>),
                     Unparsable}),
     f \in Optional(MigClean, {ManualCatalog(MigClean, << <<KHi, VPlain>> >>)}),
     g \in Optional(MigNotes, {Unparsable}),
     h \in Optional(MigLocale, {ManualCatalog(MigLocale, << <<KHi, VPlain>> >>)})}

InitMig ==
  /\ config = [strategy |-> "directory", format |-> FormatJs]
  /\ tree = SourceFiles
  /\ disk \in MigDisks
  /\ pc = "idle"
  /\ migrations = <<>>
  /\ files = <<>>
  /\ allKeys = <<>>
  /\ namespaces = <<>>
  /\ li = 1
  /\ ni = 1
  /\ stats = ZeroStats
  /\ writes = <<>>
  /\ preDisk = disk
  /\ preRun = [config |-> config, tree |-> tree, disk |-> disk]
  /\ quiet = FALSE
  /\ runs = 0
  /\ edits = 0
  /\ mA = <<>>
  /\ mB = <<>>
  /\ mC = <<>>
  /\ mL = [done |-> FALSE, keys |-> <<>>]
  /\ mR = [done |-> FALSE, keys |-> <<>>]
  /\ arg = <<>>
  /\ res = [done |-> FALSE, value |-> <<>>]

NextMig == MigratePlan \/ MigrateStep

SpecMig == InitMig /\ [][NextMig]_vars

----------------------------------------------------------------------------
(* Vocabulary of the properties                                             *)

\* the file exists and loadTranslationFile returns a mapping for it
Loads(folder, name) ==
  name \in DOMAIN folder /\ loadTranslationFile(name, folder[name]).ok

MapOf(folder, name) == loadTranslationFile(name, folder[name]).map

SameMapping(a, b) ==
  MapKeys(a) = MapKeys(b) /\ \A k \in MapKeys(a) : Get(a, k) = Get(b, k)

KeySet(keys) == {keys[i].key : i \in 1..Len(keys)}

RecordOf(keys, k) == keys[CHOOSE i \in 1..Len(keys) : keys[i].key = k]

\* the key list any scan order must give
CanonicalKeys == ExtractAll(config.strategy, tree, SortStringSet(DOMAIN tree))

\* the catalog file names a run with the given strategy produces for a locale
CatalogNames(strategy, format, sourceTree, locale) ==
  LET keys == ExtractAll(strategy, sourceTree, SortStringSet(DOMAIN sourceTree))
  IN {getFileName(strategy, NamespaceOf(keys[i]), locale, format) :
        i \in 1..Len(keys)}

\* the files of a locale in a folder
LocaleFiles(folder, locale) == {n \in DOMAIN folder : IsLocaleFile(n, locale)}

\* every non-empty value that a loadable file among `from` holds in the folder
\* `before` for a key that is still extracted is the value of that key in a
\* loadable file among `to` in the folder `after`
Preserved(before, from, after, to) ==
  \A f \in from :
    Loads(before, f) =>
      \A k \in MapKeys(MapOf(before, f)) \cap KeySet(allKeys) :
        Get(MapOf(before, f), k) # <<>> =>
          \E g \in to :
            /\ Loads(after, g)
            /\ Has(MapOf(after, g), k)
            /\ Get(MapOf(after, g), k) = Get(MapOf(before, f), k)

NonSourceLocales == Range(Locales) \ {SourceLocale}

\* the number of files a complete run renders
RenderedCount ==
  Len(Locales) * Len(namespaces)
  + (IF Len(namespaces) > 1 THEN Len(Locales) ELSE 0)

\* the file a module specifier of the aggregator resolves to
Resolve(importPath, format) ==
  LET name == SubSeq(importPath, 3, Len(importPath))
  IN IF format = FormatJson THEN name ELSE name \o <<".">> \o format

ImportsOf(content) == SelectSeq(content, LAMBDA line : line[1] = "import")

MigrationDone == pc = "migrate" /\ migrations = <<>>

OldNames(folder) == {n \in DOMAIN folder : NeedsMigration(n)}

\* the old-named files of the folder, o among them, that share o's target
Sharing(folder, o) ==
  {p \in OldNames(folder) : newFileName(p) = newFileName(o)}

----------------------------------------------------------------------------
(* Properties                                                               *)

\* C1: a second run on the same source tree and configuration, with no edit
\* since the first, leaves every file of the output folder as it was, writes
\* no file and counts every catalog and every aggregator as skipped.
C1_Idempotent ==
  (pc = "done" /\ runs >= 2 /\ quiet) =>
    /\ disk = preRun.disk
    /\ writes = <<>>
    /\ stats.generated = 0
    /\ stats.skipped = RenderedCount

\* C1 where no namespace is "common" beside others: the second run is silent.
C1_IdempotentWithoutCommon ==
  (pc = "done" /\ runs >= 2 /\ quiet
   /\ ~(Len(namespaces) > 1 /\ Common \in Range(namespaces))) =>
    /\ disk = preRun.disk
    /\ writes = <<>>
    /\ stats.generated = 0
    /\ stats.skipped = RenderedCount

\* C2: with the configuration unchanged since the previous run, every non-empty
\* value a loadable catalog of a non-source locale held before the run for a key
\* that is still extracted is that key's value in a catalog of the locale after
\* the run.
C2_TranslationsPreserved ==
  (pc = "done" /\ runs >= 2 /\ config = preRun.config) =>
    \A l \in NonSourceLocales :
      Preserved(preDisk, LocaleFiles(preDisk, l), disk, LocaleFiles(disk, l))

\* C3: after the splitting strategy is changed and the extractor is run again,
\* every non-empty value the previous run's catalogs of a non-source locale hold
\* for a key that is still extracted is that key's value in a catalog the new
\* run produces for the locale.
C3_PreservedAcrossStrategyChange ==
  (pc = "done" /\ runs >= 2 /\ config.strategy # preRun.config.strategy) =>
    \A l \in NonSourceLocales :
      Preserved(preDisk,
                CatalogNames(preRun.config.strategy, preRun.config.format,
                             preRun.tree, l) \cap DOMAIN preDisk,
                disk,
                CatalogNames(config.strategy, config.format, tree, l)
                  \cap DOMAIN disk)

\* C4: within one run distinct (locale, namespace) pairs get distinct catalog
\* file names, no catalog file name is an aggregator's file name, and no path
\* is written by two generation steps.
C4_CollisionFree ==
  (pc \in {"generate", "index", "done"}) =>
    /\ \A l1, l2 \in Range(Locales), n1, n2 \in Range(namespaces) :
         getFileName(config.strategy, n1, l1, config.format)
           = getFileName(config.strategy, n2, l2, config.format)
         => l1 = l2 /\ n1 = n2
    /\ Len(namespaces) > 1 =>
         \A l1, l2 \in Range(Locales), n \in Range(namespaces) :
           getFileName(config.strategy, n, l1, config.format)
             # indexFileName(l2, config.format)
    /\ \A i, j \in 1..Len(writes) :
         (i # j /\ writes[i][1] # "migrate" /\ writes[j][1] # "migrate")
         => writes[i][2] # writes[j][2]

\* C4, its first part alone: getFileName is injective on the (locale, namespace)
\* pairs of a run.
C4_CatalogNamesDistinct ==
  (pc \in {"generate", "index", "done"}) =>
    \A l1, l2 \in Range(Locales), n1, n2 \in Range(namespaces) :
      getFileName(config.strategy, n1, l1, config.format)
        = getFileName(config.strategy, n2, l2, config.format)
      => l1 = l2 /\ n1 = n2

\* the aggregator of a locale imports one module per namespace, each resolving
\* to the catalog of that namespace, and the imported modules hold every key
AggregatorComplete(locale) ==
  LET indexPath == indexFileName(locale, config.format)
      imports == ImportsOf(disk[indexPath])
      target(i) == Resolve(imports[i][3], config.format)
  IN /\ indexPath \in DOMAIN disk
     /\ Len(imports) = Len(namespaces)
     /\ \A n \in Range(namespaces) :
          Cardinality({i \in 1..Len(imports) :
                         target(i) = getFileName(config.strategy, n, locale,
                                                 config.format)}) = 1
     /\ \A i \in 1..Len(imports) : Loads(disk, target(i))
     /\ UNION {MapKeys(MapOf(disk, target(i))) : i \in 1..Len(imports)}
          = KeySet(allKeys)

\* C5: when more than one namespace is observed, after the run each locale's
\* aggregator imports exactly one module per namespace, each import resolves to
\* the catalog the run produced for that namespace, and the keys of the
\* imported modules are the extracted keys.
C5_AggregatorComplete ==
  (pc = "done" /\ Len(namespaces) > 1) =>
    \A l \in Range(Locales) : AggregatorComplete(l)

\* C5 where no namespace is "common": the aggregator is complete.
C5_AggregatorCompleteWithoutCommon ==
  (pc = "done" /\ Len(namespaces) > 1 /\ Common \notin Range(namespaces)) =>
    \A l \in Range(Locales) : AggregatorComplete(l)

\* C6: whatever order the glob returns the files in, extract() gets the same
\* sorted file list, the same merged key list (keys, per-key file lists,
\* namespace per key) and the same namespaces, which are all the rendering
\* takes from the scan.
C6_ScanOrderDeterminism ==
  (pc \in {"generate", "index", "done"}) =>
    /\ files = SortStringSet(DOMAIN tree)
    /\ allKeys = CanonicalKeys
    /\ namespaces = getNamespaces(CanonicalKeys)

\* C6 happens: a run ends on a tree where two files of different namespaces
\* share a key, so that the merge depends on which file comes first.
C6_Witness ==
  /\ pc = "done"
  /\ config.strategy = "directory"
  /\ {PHome, PLogin} \subseteq DOMAIN tree
  /\ \E i \in 1..Len(allKeys) : Len(allKeys[i].files) = 2

\* C7: the two groupings of mergeKeys over A, B, C give the same keys (those of
\* A, B and C) and for each key the same file list, the sorted union without
\* duplicates of the key's file lists; each result has one record per key text
\* and is sorted by key text.
C7_MergeKeysAssociative ==
  (mL.done /\ mR.done) =>
    /\ KeySet(mL.keys) = KeySet(mR.keys)
    /\ KeySet(mL.keys) = KeySet(mA) \cup KeySet(mB) \cup KeySet(mC)
    /\ \A k \in KeySet(mL.keys) :
         /\ RecordOf(mL.keys, k).files = RecordOf(mR.keys, k).files
         /\ RecordOf(mL.keys, k).files
              = SortStringSet(UNION {Range(RecordOf(X, k).files) :
                                       X \in {Y \in {mA, mB, mC} : k \in KeySet(Y)}})
    /\ \A R \in {mL.keys, mR.keys} :
         \A i, j \in 1..Len(R) : i < j => KeyRank(R[i].key) < KeyRank(R[j].key)

\* C7 happens: both groupings are computed and a key of all three lists has
\* the files of the three lists.
C7_Witness ==
  /\ mL.done
  /\ mR.done
  /\ Len(mL.keys) >= 2
  /\ \E k \in KeySet(mA) \cap KeySet(mB) \cap KeySet(mC) :
       Len(RecordOf(mL.keys, k).files) = 3

C9_RenameAndFrame ==
  MigrationDone =>
    /\ \A o \in OldNames(preDisk) :
         newFileName(o) \notin DOMAIN preDisk =>
           /\ newFileName(o) \in DOMAIN disk
           /\ disk[newFileName(o)] = preDisk[o]
           /\ o \notin DOMAIN disk
    /\ \A f \in DOMAIN preDisk :
         (~HasInvalidChar(f) \/ extname(f) \notin TranslationExts) =>
           f \in DOMAIN disk /\ disk[f] = preDisk[f]

\* C9 as the code has it: when the sanitized target of an old-named file does
\* not exist, after the migration the target exists, and it holds exactly the
\* old file's content, the old path being gone, when no other old-named file
\* has the same target; every file with no disallowed character in its name,
\* or with an extension other than .js, .ts, .json, still exists, and is
\* unchanged unless it is the target of an old-named file.
C9_RenameWhenAlone ==
  MigrationDone =>
    /\ \A o \in OldNames(preDisk) :
         newFileName(o) \notin DOMAIN preDisk =>
           /\ newFileName(o) \in DOMAIN disk
           /\ Sharing(preDisk, o) = {o} =>
                /\ disk[newFileName(o)] = preDisk[o]
                /\ o \notin DOMAIN disk
    /\ \A f \in DOMAIN preDisk :
         (~HasInvalidChar(f) \/ extname(f) \notin TranslationExts) =>
           /\ f \in DOMAIN disk
           /\ (\A p \in OldNames(preDisk) : newFileName(p) # f) =>
                disk[f] = preDisk[f]

\* C9 happens: a migration ends that renamed an old-named file whose target did
\* not exist, beside a clean-named file and a file that is not a catalog.
C9_Witness ==
  /\ MigrationDone
  /\ {MigClean, MigNotes} \subseteq DOMAIN preDisk
  /\ \E o \in OldNames(preDisk) :
       /\ newFileName(o) \notin DOMAIN preDisk
       /\ Sharing(preDisk, o) = {o}
       /\ o \notin DOMAIN disk
       /\ newFileName(o) \in DOMAIN disk

\* C10: a generation step writes its file exactly when the file does not exist
\* or differs from the rendered content, and then counts it as generated; it
\* leaves the folder untouched otherwise, and then counts it as skipped; each
\* step increments exactly one of the two counters.
C10_SkipIfUnchanged ==
  [][(pc \in {"generate", "index"}) =>
       LET path == IF pc = "generate"
                   THEN getFileName(config.strategy, namespaces[ni], Locales[li],
                                    config.format)
                   ELSE indexFileName(Locales[li], config.format)
           content == IF pc = "generate"
                      THEN CatalogContent(config.format,
                                          groupByNamespace(allKeys, namespaces[ni]),
                                          ExistingTranslations(disk, path),
                                          Locales[li])
                      ELSE generateLocaleIndex(Locales[li], namespaces,
                                               config.format)
           differs == path \notin DOMAIN disk \/ disk[path] # content
       IN /\ differs =>
               /\ disk' = WriteFile(disk, path, content)
               /\ stats'.generated = stats.generated + 1
               /\ stats'.skipped = stats.skipped
          /\ ~differs =>
               /\ disk' = disk
               /\ stats'.generated = stats.generated
               /\ stats'.skipped = stats.skipped + 1]_vars

\* C10 happens: a run ends in which some files were written and others skipped.
C10_Witness ==
  /\ pc = "done"
  /\ stats.skipped > 0
  /\ stats.generated > 0

----------------------------------------------------------------------------
(* Rendering one catalog: a single call of generateJS or generateJSON       *)

\* every run variable at rest: the specifications of single calls do not run
NoRun ==
  /\ config = [strategy |-> "directory", format |-> FormatJs]
  /\ tree = SourceFiles
  /\ disk = <<>>
  /\ pc = "idle"
  /\ migrations = <<>>
  /\ files = <<>>
  /\ allKeys = <<>>
  /\ namespaces = <<>>
  /\ li = 1
  /\ ni = 1
  /\ stats = ZeroStats
  /\ writes = <<>>
  /\ preDisk = disk
  /\ preRun = [config |-> config, tree |-> tree, disk |-> disk]
  /\ quiet = FALSE
  /\ runs = 0
  /\ edits = 0
  /\ mA = <<>>
  /\ mB = <<>>
  /\ mC = <<>>
  /\ mL = [done |-> FALSE, keys |-> <<>>]
  /\ mR = [done |-> FALSE, keys |-> <<>>]

\* the longest key list and the largest existing object of a rendering
MaxRenderKeys == 2

\* the key lists of one namespace: distinct key texts found in one source file
RenderKeys ==
  {[i \in 1..Len(s) |-> KeyRecord(s[i], PHome)] :
     s \in {t \in UNION {[1..n -> KeyTexts] : n \in 0..MaxRenderKeys} :
              \A i, j \in DOMAIN t : t[i] = t[j] => i = j}}

\* the objects loadTranslationFile can return: translated, quoted or empty values
RenderExisting ==
  {m \in UNION {[1..n -> KeyTexts \X {<<>>, VPlain, VQuoted}] :
                  n \in 0..MaxRenderKeys} :
     \A i, j \in DOMAIN m : m[i][1] = m[j][1] => i = j}

InitRender ==
  /\ NoRun
  /\ arg \in [keys : RenderKeys, existingTranslations : RenderExisting,
              locale : Range(Locales), format : Formats]
  /\ res = [done |-> FALSE, value |-> <<>>]

\* the rendering step of extract() for one (locale, namespace) pair
Render ==
  /\ ~res.done
  /\ res' = [done |-> TRUE,
             value |-> CatalogContent(arg.format, arg.keys,
                                      arg.existingTranslations, arg.locale)]
  /\ UNCHANGED <<runVars, mergeVars, arg>>

NextRender == Render

SpecRender == InitRender /\ [][NextRender]_vars

\* the object a rendered catalog denotes when it is read back
Rendered == loadTranslationFile(FileName(arg.locale, <<>>, arg.format), res.value).map

\* the value the rule gives key k
RuleValue(k) ==
  IF arg.locale = SourceLocale THEN k
  ELSE IF Has(arg.existingTranslations, k) THEN Get(arg.existingTranslations, k)
       ELSE <<>>

ValueRuleOn(keyTexts) ==
  res.done =>
    /\ \A k \in KeySet(arg.keys) \cap keyTexts :
         Has(Rendered, k) /\ Get(Rendered, k) = RuleValue(k)
    /\ arg.locale = SourceLocale =>
         res.value = CatalogContent(arg.format, arg.keys, <<>>, arg.locale)

\* C11: in the source locale every rendered value equals its key and the
\* rendering does not depend on the existing content; in another locale the
\* value of key K is the existing translation of K when there is one and the
\* empty string otherwise, in the JS and in the JSON rendering alike.
C11_CatalogValueRule == ValueRuleOn(KeyTexts)

\* the rule holds for every key that is not the name of an inherited property
C11_ValueRuleForOwnKeys == ValueRuleOn(KeyTexts \ ObjectPrototypeKeys)

----------------------------------------------------------------------------
(* Keys that are no longer in the source tree                               *)

\* the catalog files of the previous run and of this run that are in the folder
KnownCatalogs ==
  UNION {CatalogNames(preRun.config.strategy, preRun.config.format, preRun.tree, l)
         \cup CatalogNames(config.strategy, config.format, tree, l) :
           l \in Range(Locales)}
  \cap DOMAIN disk

NoStaleKeys(names) ==
  \A name \in names :
    Loads(disk, name) => MapKeys(MapOf(disk, name)) \subseteq KeySet(allKeys)

\* C12: after a run, no catalog file of a configured locale holds a key that
\* is no longer extracted from the source tree, the catalog files of
\* namespaces observed by the previous run and not by this one included.
C12_StaleKeyCleanup == (pc = "done" /\ runs >= 2) => NoStaleKeys(KnownCatalogs)

\* the same with an unchanged configuration: only the source tree was edited
C12_StaleKeyCleanupSameConfig ==
  (pc = "done" /\ runs >= 2 /\ config = preRun.config) => NoStaleKeys(KnownCatalogs)

\* the catalogs the run rendered hold extracted keys only
C12_RenderedCatalogsClean ==
  (pc = "done" /\ runs >= 2) =>
    NoStaleKeys({writes[i][2] : i \in 1..Len(writes)} \cap DOMAIN disk)

----------------------------------------------------------------------------
(* Scanning a tree in which some files cannot be used                       *)

\* a file the glob returns from outside the working directory
POutside == <<"/", "q", "/", "X", ".", "v", "u", "e">>

\* a directory whose name matches the include pattern
PDirectory == <<"s", "r", "c", "/", "l", "i", "b", ".", "v", "u", "e">>

ScanFiles ==
  SourceFiles @@ (POutside :> <<KConstructor>>) @@ (PDirectory :> Unreadable)

ScanTrees ==
  {[f \in S |-> ScanFiles[f]] : S \in SUBSET (DOMAIN ScanFiles) \ {{}}}

InitScan ==
  /\ config \in [strategy : RunStrategies, format : Formats]
  /\ tree \in ScanTrees
  /\ disk = <<>>
  /\ pc = "idle"
  /\ migrations = <<>>
  /\ files = <<>>
  /\ allKeys = <<>>
  /\ namespaces = <<>>
  /\ li = 1
  /\ ni = 1
  /\ stats = ZeroStats
  /\ writes = <<>>
  /\ preDisk = disk
  /\ preRun = [config |-> config, tree |-> tree, disk |-> disk]
  /\ quiet = FALSE
  /\ runs = 0
  /\ edits = 0
  /\ mA = <<>>
  /\ mB = <<>>
  /\ mC = <<>>
  /\ mL = [done |-> FALSE, keys |-> <<>>]
  /\ mR = [done |-> FALSE, keys |-> <<>>]
  /\ arg = <<>>
  /\ res = [done |-> FALSE, value |-> <<>>]

NextScan == MigratePlan \/ Scan

SpecScan == InitScan /\ [][NextScan]_vars

\* the files of the tree that pass validatePath and can be read
UsableFiles ==
  {f \in DOMAIN tree : validatePath(f, Cwd).ok /\ tree[f] # Unreadable}

Scanned == pc \in {"generate", "done"} /\ files # <<>>

\* C13: a failure to validate or to read one scanned file does not abort the
\* scan: every file is in the processed list, the run goes on to the
\* generation, and the key list is the merge of the keys of the usable files
\* alone, in their sorted order.
C13_FailureIsolation ==
  Scanned =>
    /\ Range(files) = DOMAIN tree
    /\ allKeys = ExtractAll(config.strategy, [f \in UsableFiles |-> tree[f]],
                            SortStringSet(UsableFiles))
    /\ KeySet(allKeys) = UNION {Range(tree[f]) : f \in UsableFiles}

\* both kinds of failure happen between usable files, and keys were found
\* before and after them
C13_Witness ==
  /\ Scanned
  /\ DOMAIN tree = DOMAIN ScanFiles
  /\ files[1] = POutside
  /\ files[Len(files)] = PHome
  /\ KeySet(allKeys) = {KHi, KSave, KCancel}

----------------------------------------------------------------------------
(* A run over a folder whose files are not catalogs                         *)

LoadDisks(format) ==
  LET en == FileName(SourceLocale, <<>>, format)
      pt == FileName(Locales[2], <<>>, format)
      pages == FileName(Locales[2], NsPages, format)
  IN {a @@ b @@ c :
        a \in Optional(en, {Unparsable, NullText}),
        b \in Optional(pt, {Unparsable, NullText,
                            ManualCatalog(pt, << <<KHi, VPlain>> >>)}),
        c \in Optional(pages, {Unparsable, NullText,
                               ManualCatalog(pages, << <<KSave, VQuoted>> >>)})}

InitLoad ==
  /\ config \in [strategy : RunStrategies, format : Formats]
  /\ tree \in Trees
  /\ disk \in LoadDisks(config.format)
  /\ pc = "idle"
  /\ migrations = <<>>
  /\ files = <<>>
  /\ allKeys = <<>>
  /\ namespaces = <<>>
  /\ li = 1
  /\ ni = 1
  /\ stats = ZeroStats
  /\ writes = <<>>
  /\ preDisk = disk
  /\ preRun = [config |-> config, tree |-> tree, disk |-> disk]
  /\ quiet = FALSE
  /\ runs = 0
  /\ edits = 0
  /\ mA = <<>>
  /\ mB = <<>>
  /\ mC = <<>>
  /\ mL = [done |-> FALSE, keys |-> <<>>]
  /\ mR = [done |-> FALSE, keys |-> <<>>]
  /\ arg = <<>>
  /\ res = [done |-> FALSE, value |-> <<>>]

NextLoad == MigratePlan \/ Scan \/ GenStep \/ IndexStep \/ Finish

SpecLoad == InitLoad /\ [][NextLoad]_vars

\* the (locale, namespace) pair the generation loop is at
CurrentPath ==
  getFileName(config.strategy, namespaces[ni], Locales[li], config.format)

CurrentKeys == groupByNamespace(allKeys, namespaces[ni])

\* the pair is rendered as if nothing had been loaded, nothing else is touched
\* and the run goes on
RenderedAsNew ==
  /\ pc' # "failed"
  /\ disk'[CurrentPath] = CatalogContent(config.format, CurrentKeys, <<>>, Locales[li])
  /\ \A n \in DOMAIN disk \ {CurrentPath} : disk'[n] = disk[n]
  /\ \/ ni' = ni + 1 /\ li' = li
     \/ ni' = 1 /\ li' = li + 1
     \/ pc' \in {"index", "done"}

\* the file at the current output path holds the given content
CurrentFileIs(contents) ==
  /\ pc = "generate"
  /\ CurrentPath \in DOMAIN disk
  /\ disk[CurrentPath] \in contents

\* C14: when the existing file at an output path cannot be read as a catalog,
\* in the JSON and in the module formats, the run does not abort, the pair is
\* rendered as if there were no existing translations, and no other file is
\* affected.
C14_SoftLoadFailure ==
  [][CurrentFileIs({Unparsable, NullText}) => RenderedAsNew]_vars

\* the same for the files that are not even JSON or a module
C14_SoftOnUnparsableText == [][CurrentFileIs({Unparsable}) => RenderedAsNew]_vars

----------------------------------------------------------------------------
(* A run in which writes to the output folder can fail                      *)

\* a failed fs.writeFile that loses the other files of the folder
FailedWriteLosesFolder(folder, name) == {<<>>}

\* the folder after fs.writeFile to name threw: the file is untouched (no
\* permission) or was opened and truncated before the error (disk full)
FailedWrite(folder, name) == {folder, WriteFile(folder, name, <<>>)}

\* one iteration of the second loop of migrateInvalidFileNames in which the
\* write of the merged file or the rename throws: the catch of the loop logs a
\* warning and the loop goes on
MigrateStepFails ==
  /\ pc = "migrate"
  /\ migrations # <<>>
  /\ migrations[1].oldPath \in DOMAIN disk
  /\ LET m == migrations[1]
     IN IF m.newPath \in DOMAIN disk
        THEN /\ loadTranslationFile(m.oldPath, disk[m.oldPath]).ok
             /\ loadTranslationFile(m.newPath, disk[m.newPath]).ok
             /\ disk' \in FailedWrite(disk, m.newPath)
        ELSE disk' = disk
  /\ migrations' = Tail(migrations)
  /\ writes' = Append(writes, <<"migrate-failed", migrations[1].newPath>>)
  /\ UNCHANGED <<config, tree, pc, files, allKeys, namespaces, li, ni, stats,
                 preDisk, preRun, quiet, runs, edits, mergeVars, callVars>>

\* one iteration of the generation loop in which fs.ensureDir or fs.writeFile
\* throws: nothing catches it and extract() rejects
GenStepFails ==
  /\ pc = "generate"
  /\ LET locale == Locales[li]
         namespace == namespaces[ni]
         keys == groupByNamespace(allKeys, namespace)
         outputPath == getFileName(config.strategy, namespace, locale, config.format)
         existingTranslations == ExistingTranslations(disk, outputPath)
         content == CatalogContent(config.format, keys, existingTranslations, locale)
     IN /\ ~ReadsNull(disk, outputPath)
        /\ shouldWriteFile(disk, outputPath, content)
        /\ disk' \in FailedWrite(disk, outputPath)
        /\ writes' = Append(writes, <<"catalog-failed", outputPath>>)
  /\ pc' = "failed"
  /\ UNCHANGED <<config, tree, migrations, files, allKeys, namespaces, li, ni, stats,
                 preDisk, preRun, quiet, runs, edits, mergeVars, callVars>>

\* one iteration of generateLocaleIndexFiles in which fs.writeFile throws
IndexStepFails ==
  /\ pc = "index"
  /\ LET indexPath == indexFileName(Locales[li], config.format)
         content == generateLocaleIndex(Locales[li], namespaces, config.format)
     IN /\ shouldWriteFile(disk, indexPath, content)
        /\ disk' \in FailedWrite(disk, indexPath)
        /\ writes' = Append(writes, <<"index-failed", indexPath>>)
  /\ pc' = "failed"
  /\ UNCHANGED <<config, tree, migrations, files, allKeys, namespaces, li, ni, stats,
                 preDisk, preRun, quiet, runs, edits, mergeVars, callVars>>

NextFail ==
  \/ MigratePlan
  \/ MigrateStep
  \/ MigrateStepFails
  \/ Scan
  \/ GenStep
  \/ GenStepFails
  \/ IndexStep
  \/ IndexStepFails
  \/ Finish

SpecFail == Init /\ [][NextFail]_vars

\* this step is a write that failed at one of the given stages
FailsNow(stages) ==
  /\ Len(writes') = Len(writes) + 1
  /\ writes'[Len(writes')][1] \in stages

\* the failing step changed no file but its own target
OthersKept ==
  LET target == writes'[Len(writes')][2]
  IN /\ DOMAIN disk' \ {target} = DOMAIN disk \ {target}
     /\ \A n \in DOMAIN disk \ {target} : disk'[n] = disk[n]

\* the run is over as a failure and nothing is written any more
Fatal == pc' = "failed" /\ OthersKept

NothingAfterFailure == pc = "failed" => (disk' = disk /\ writes' = writes)

\* C15: every failure to write to the output folder during a run - the write
\* of a merged file in the pre-migration, a catalog write, an aggregator write
\* - makes extract() fail, no later file is written in that run, and the
\* failing step modifies no file of another (locale, namespace) pair.
C15_WriteFailuresFatal ==
  [][/\ FailsNow({"migrate-failed", "catalog-failed", "index-failed"}) => Fatal
     /\ NothingAfterFailure]_vars

\* C15 as the code has it: a failed catalog or aggregator write is fatal in
\* that sense; a failed write or rename of the pre-migration is logged, changes
\* no other file, and the run continues with the next migration.
C15_CatalogWriteFailuresFatal ==
  [][/\ FailsNow({"catalog-failed", "index-failed"}) => Fatal
     /\ FailsNow({"migrate-failed"}) =>
          (pc' = "migrate" /\ migrations' = Tail(migrations) /\ OthersKept)
     /\ NothingAfterFailure]_vars

\* a run that went on after a failed migration write, rendered a catalog, and
\* then ended on a failed write
C15_Witness ==
  /\ pc = "failed"
  /\ \E i, j \in 1..Len(writes) :
       /\ i < j
       /\ writes[i][1] = "migrate-failed"
       /\ writes[j][1] = "catalog"

----------------------------------------------------------------------------
(* Starting a run: the command line and the Extractor class                 *)

OutputFolder == <<"l", "o", "c", "a", "l", "e", "s">>

\* the configurations a user writes; <<>> is a field that is missing or empty
RawConfigs ==
  [sourceLocale : {<<>>, SourceLocale},
   locales : {<<>>, Locales, <<SourceLocale, <<".", ".", "/", "x">> >>},
   format : Formats \cup {<<"y", "a", "m", "l">>},
   hasCatalogs : BOOLEAN,
   outputFolder : {<<>>, OutputFolder, <<".", ".", "/", "o", "u", "t">>},
   hasInclude : BOOLEAN,
   strategy : RunStrategies]

\* /^[a-zA-Z0-9_-]+$/.test(locale)
IsLocaleIdentifier(locale) ==
  /\ locale # <<>>
  /\ \A i \in 1..Len(locale) : IsWordChar(locale[i]) \/ locale[i] = "-"

\* str.includes("..")
IncludesDotDot(str) ==
  \E i \in 1..Len(str) - 1 : str[i] = "." /\ str[i + 1] = "."

\* validateConfig returns without throwing
validateConfig(raw) ==
  /\ raw.sourceLocale # <<>>
  /\ raw.locales # <<>>
  /\ \A i \in 1..Len(raw.locales) : IsLocaleIdentifier(raw.locales[i])
  /\ raw.format \in {FormatJs, FormatJson, <<"t", "s">>}
  /\ raw.hasCatalogs
  /\ raw.outputFolder # <<>>
  /\ ~IncludesDotDot(raw.outputFolder)
  /\ raw.hasInclude

\* the run of the model is the run of a configuration with these locales and
\* this output folder; its strategy and its format are the fields of config
Runnable(raw) ==
  /\ raw.sourceLocale = SourceLocale
  /\ raw.locales = Locales
  /\ raw.hasCatalogs
  /\ raw.outputFolder = OutputFolder
  /\ raw.hasInclude

InitEntry ==
  /\ arg \in RawConfigs
  /\ res = [done |-> FALSE, value |-> <<>>]
  /\ config = [strategy |-> arg.strategy, format |-> arg.format]
  /\ tree = SourceFiles
  /\ disk = <<>>
  /\ pc = "start"
  /\ migrations = <<>>
  /\ files = <<>>
  /\ allKeys = <<>>
  /\ namespaces = <<>>
  /\ li = 1
  /\ ni = 1
  /\ stats = ZeroStats
  /\ writes = <<>>
  /\ preDisk = disk
  /\ preRun = [config |-> config, tree |-> tree, disk |-> disk]
  /\ quiet = FALSE
  /\ runs = 0
  /\ edits = 0
  /\ mA = <<>>
  /\ mB = <<>>
  /\ mC = <<>>
  /\ mL = [done |-> FALSE, keys |-> <<>>]
  /\ mR = [done |-> FALSE, keys |-> <<>>]

\* bin/index.js: loader.load validates the configuration; when it throws, the
\* catch prints the error and the process exits with status 1
CliStart ==
  /\ pc = "start"
  /\ pc' = IF validateConfig(arg) THEN "idle" ELSE "failed"
  /\ res' = [done |-> TRUE, value |-> <<"cli">>]
  /\ UNCHANGED <<config, tree, disk, migrations, files, allKeys, namespaces, li, ni,
                 stats, writes, preDisk, preRun, quiet, runs, edits, mergeVars, arg>>

\* new Extractor(config) followed by extract(), as the tests and any caller of
\* the class do: the constructor stores the configuration as it is
Construct ==
  /\ pc = "start"
  /\ Runnable(arg)
  /\ pc' = "idle"
  /\ res' = [done |-> TRUE, value |-> <<"api">>]
  /\ UNCHANGED <<config, tree, disk, migrations, files, allKeys, namespaces, li, ni,
                 stats, writes, preDisk, preRun, quiet, runs, edits, mergeVars, arg>>

NextEntry ==
  \/ CliStart
  \/ Construct
  \/ MigratePlan
  \/ Scan
  \/ GenStep
  \/ IndexStep
  \/ Finish

SpecEntry == InitEntry /\ [][NextEntry]_vars

\* no migration, no scan and no write happened
NoEffect ==
  /\ pc \in {"start", "failed"}
  /\ runs = 0
  /\ files = <<>>
  /\ writes = <<>>
  /\ disk = preDisk

\* C16: for a configuration that fails validation (a required field missing,
\* a locale that is not an identifier, a format other than js, json and ts,
\* ".." in the output folder) no migration, no file scan and no file write is
\* performed: the failure is raised before extract() touches the file system.
C16_CheckedBeforeEffect == ~validateConfig(arg) => NoEffect

\* the same for the runs started from the command line
C16_CliChecksBeforeEffect ==
  (res.value = <<"cli">> /\ ~validateConfig(arg)) => (NoEffect /\ pc = "failed")

----------------------------------------------------------------------------
(* Escaping a key and a value into one line of a catalog                    *)

\* the longest key that is escaped
MaxEscapeLen == 3

\* a backslash, the quotes, the escaped and another control character, a letter
EscapeChars == {"\\", "\"", "'", "\n", "\r", "\t", "\f", "a"}

EscapeKeys == UNION {[1..n -> EscapeChars] : n \in 0..MaxEscapeLen}

EscapeValues == UNION {[1..n -> EscapeChars] : n \in 0..1} \cup {VQuoted}

InitEscape ==
  /\ NoRun
  /\ arg \in [key : EscapeKeys, value : EscapeValues]
  /\ res = [done |-> FALSE, value |-> <<>>]

\* generateJS: safeKey and value of one key of a locale with a translation
EscapeLine ==
  /\ ~res.done
  /\ res' = [done |-> TRUE,
             value |-> [safeKey |-> escapeString(arg.key),
                        value |-> escapeString(arg.value)]]
  /\ UNCHANGED <<runVars, mergeVars, arg>>

NextEscape == EscapeLine

SpecEscape == InitEscape /\ [][NextEscape]_vars

\* the text of the line `  "${safeKey}": "${value}",`
LineText(safeKey, value) ==
  <<" ", " ", "\"">> \o safeKey \o <<"\"", ":", " ", "\"">> \o value \o <<"\"", ",">>

\* the position of the quote closing the string literal whose content starts
\* at position i, as ECMAScript reads it; 0 when the literal does not end
RECURSIVE LiteralEnd(_, _)
LiteralEnd(text, i) ==
  IF i > Len(text) THEN 0
  ELSE IF text[i] = "\\" THEN LiteralEnd(text, i + 2)
  ELSE IF text[i] = "\"" THEN i
  ELSE IF text[i] \in {"\n", "\r"} THEN 0
  ELSE LiteralEnd(text, i + 1)

\* the number of consecutive backslashes that end just before position i
RECURSIVE BackslashesBefore(_, _)
BackslashesBefore(str, i) ==
  IF i > 1 /\ str[i - 1] = "\\" THEN 1 + BackslashesBefore(str, i - 1) ELSE 0

SafeLiteralContent(str) ==
  /\ \A i \in 1..Len(str) : str[i] \notin {"\n", "\r", "\t", "\f"}
  /\ \A i \in 1..Len(str) :
       str[i] = "\"" => BackslashesBefore(str, i) % 2 = 1

\* C17: the output of escapeString holds no raw newline or control character
\* and each of its double quotes follows an odd number of backslashes, so the
\* emitted line is exactly two terminated string literals, the key and the
\* value, with nothing of either outside a literal.
C17_EscapingSafety ==
  res.done =>
    LET safeKey == res.value.safeKey
        value == res.value.value
        text == LineText(safeKey, value)
        keyEnd == LiteralEnd(text, 4)
    IN /\ SafeLiteralContent(safeKey)
       /\ SafeLiteralContent(value)
       /\ keyEnd = 4 + Len(safeKey)
       /\ LiteralEnd(text, keyEnd + 4) = Len(text) - 1
       /\ UnescapeJS(safeKey) = SelectSeq(arg.key, LAMBDA c : c # "\f")

\* a key that ends in a backslash after a quote and a newline, with a value
\* that is a single backslash
C17_Witness ==
  /\ res.done
  /\ arg.key = <<"\"", "\n", "\\">>
  /\ arg.value = <<"\\">>

----------------------------------------------------------------------------
(* Finding the calls of t in a source text                                  *)

\* the quotes of the pattern that open a literal in the texts of the model
\* (template literals are not among the statements)
QuoteChars == {"'", "\""}

\* position e holds the quote q and \s*\) follows it
ClosesAt(code, e, q) ==
  /\ e <= Len(code)
  /\ code[e] = q
  /\ LET k == SkipSpace(code, e + 1) IN k <= Len(code) /\ code[k] = ")"

\* (.+?)\1\s*\) with the s flag: the first position from e on at which the
\* opening quote is followed by \s*\), whatever lies in between; 0 if none
RECURSIVE FirstClose(_, _, _)
FirstClose(code, e, q) ==
  IF e > Len(code) THEN 0
  ELSE IF ClosesAt(code, e, q) THEN e
  ELSE FirstClose(code, e + 1, q)

NoMatch == [found |-> FALSE, message |-> <<>>, end |-> 0]

\* patterns.simple, /\bt\(\s*(quote)(.+?)\1\s*\)/gs, tried at position i
MatchSimple(code, i) ==
  IF /\ i + 1 <= Len(code)
     /\ code[i] = "t"
     /\ code[i + 1] = "("
     /\ (i = 1 \/ ~IsWordChar(code[i - 1]))
  THEN LET j == SkipSpace(code, i + 2)
       IN IF j <= Len(code) /\ code[j] \in QuoteChars
          THEN LET e == FirstClose(code, j + 2, code[j])
               IN IF e = 0 THEN NoMatch
                  ELSE [found |-> TRUE,
                        message |-> SubSeq(code, j + 1, e - 1),
                        end |-> SkipSpace(code, e + 1)]
          ELSE NoMatch
  ELSE NoMatch

\* code.matchAll(patterns.simple): the second group of each match, in order
RECURSIVE MatchAll(_, _)
MatchAll(code, i) ==
  IF i > Len(code) THEN <<>>
  ELSE LET m == MatchSimple(code, i)
       IN IF m.found THEN <<m.message>> \o MatchAll(code, m.end + 1)
          ELSE MatchAll(code, i + 1)

\* the brace count of validateMessageFormat after the message, -1 once it
\* was negative
RECURSIVE BraceCount(_, _)
BraceCount(message, n) ==
  IF n = 0 THEN 0
  ELSE LET before == BraceCount(message, n - 1)
       IN IF before < 0 THEN -1
          ELSE IF message[n] = "{" THEN before + 1
          ELSE IF message[n] = "}" THEN before - 1
          ELSE before

\* a validation that accepts every message
validateAnyMessage(message) == TRUE

\* message.length > 5000 is skipped
MaxMessageLength == 5000

\* validateMessageFormat returns without throwing: the names extractVariables
\* returns are valid already
validateMessageFormat(message) == BraceCount(message, Len(message)) = 0

\* extractFromCode: each message once, the invalid ones skipped
extractFromCode(code, filePath) ==
  LET messages == MatchAll(code, 1)
      kept == {i \in 1..Len(messages) :
                 /\ \A j \in 1..(i - 1) : messages[j] # messages[i]
                 /\ Len(messages[i]) >= 1
                 /\ Len(messages[i]) <= MaxMessageLength
                 /\ validateMessageFormat(messages[i])}
      position(n) == CHOOSE i \in kept : Cardinality({j \in kept : j < i}) = n - 1
  IN [n \in 1..Cardinality(kept) |-> KeyRecord(messages[position(n)], filePath)]

\* the most statements a source text has
MaxStatements == 3

\* statements of a source file: t called with one literal (in two ways), with
\* a variable, with a literal followed by a concatenation, and another call
TLiteral == <<"t", "(", "\"", "a", "\"", ")">>
TDollar == <<"$", "t", "(", " ", "'", "c", "'", " ", ")">>
TVariable == <<"t", "(", "v", ")">>
TConcat == <<"t", "(", "\"", "a", "\"", " ", "+", " ", "s", ")">>
OtherCall == <<"f", "(", "\"", "b", "\"", ")">>

Statements == {TLiteral, TDollar, TVariable, TConcat, OtherCall}

InitExtract ==
  /\ NoRun
  /\ arg \in UNION {[1..n -> Statements] : n \in 0..MaxStatements}
  /\ res = [done |-> FALSE, value |-> <<>>]

\* extractFromFile for a file holding the statements, one on each line
ExtractFromText ==
  /\ ~res.done
  /\ res' = [done |-> TRUE,
             value |-> extractFromCode(Join(arg, <<";", "\n">>), PApp)]
  /\ UNCHANGED <<runVars, mergeVars, arg>>

NextExtract == ExtractFromText

SpecExtract == InitExtract /\ [][NextExtract]_vars

\* the contents of the arguments that are one whole string literal
WholeLiterals ==
  {<<"a">> : i \in {j \in DOMAIN arg : arg[j] = TLiteral}}
  \cup {<<"c">> : i \in {j \in DOMAIN arg : arg[j] = TDollar}}

\* C18: a call of t whose argument is not one whole string literal - a
\* variable, a literal followed by a concatenation - contributes no key,
\* whatever follows it in the file: every extracted key is the exact content
\* of a whole-literal argument of some call of t.
C18_LiteralOnly == res.done => KeySet(res.value) \subseteq WholeLiterals

\* that holds for the texts without a literal followed by a concatenation,
\* where every whole-literal argument is found as well
C18_LiteralOnlyWithoutConcat ==
  (res.done /\ TConcat \notin Range(arg)) => KeySet(res.value) = WholeLiterals

----------------------------------------------------------------------------
(* The namespace of one file                                                *)

\* the most directories between src and the file
MaxDirs == 3

\* directory names: plain ones, dynamic routes and a route group
DirNames ==
  { <<"p", "a", "g", "e", "s">>,
    <<"I", "t", "e", "m", "s">>,
    <<"[", "i", "d", "]">>,
    <<"[", "I", "D", "]">>,
    <<"[", "S", "l", "u", "g", "]">>,
    <<"[", "u", "s", "e", "r", "I", "d", "]">>,
    <<"(", "g", "r", "o", "u", "p", ")">> }

\* the absolute path of the file X.vue below src and the given directories
PathOf(dirs) ==
  Cwd \o <<"/">>
  \o Join(<< <<"s", "r", "c">> >> \o dirs \o << <<"X", ".", "v", "u", "e">> >>,
          <<"/">>)

InitNamespace ==
  /\ NoRun
  /\ arg \in [strategy : Strategies \cup {"custom"},
              dirs : UNION {[1..n -> DirNames] : n \in 0..MaxDirs}]
  /\ res = [done |-> FALSE, value |-> <<>>]

\* generate(filePath); the custom function of the model returns the
\* directory of the file relative to src
Generate ==
  /\ ~res.done
  /\ res' = [done |-> TRUE,
             value |-> IF arg.strategy = "custom"
                       THEN sanitizeNamespace(generateCustom(Join(arg.dirs, <<"/">>)))
                       ELSE generate(arg.strategy, PathOf(arg.dirs))]
  /\ UNCHANGED <<runVars, mergeVars, arg>>

NextNamespace == Generate

SpecNamespace == InitNamespace /\ [][NextNamespace]_vars

\* the token of one directory name; group is what a route group gives
TokenOf(dir, group) ==
  IF dir[1] = "["
  THEN IF LowerCase(dir) = <<"[", "i", "d", "]">> THEN <<"i", "d">>
       ELSE IF LowerCase(dir) = <<"[", "s", "l", "u", "g", "]">>
            THEN <<"s", "l", "u", "g">>
            ELSE <<"p", "a", "r", "a", "m">>
  ELSE IF dir[1] = "(" THEN group
  ELSE LowerCase(dir)

\* the tokens of the directories within the depth limit, the empty ones left
\* out, joined by dots
JoinedTokens(dirs, group(_)) ==
  LET kept == Slice(dirs, DefaultMaxDepth)
      tokens == [i \in 1..Len(kept) |-> TokenOf(kept[i], group(kept[i]))]
  IN Join(SelectSeq(tokens, LAMBDA t : t # <<>>), <<".">>)

NoToken(dir) == <<>>

GroupName(dir) == LowerCase(SubSeq(dir, 2, Len(dir) - 1))

DirectoryCall == res.done /\ arg.strategy = "directory" /\ arg.dirs # <<>>

WellFormed(namespace) ==
  /\ \A i \in 1..Len(namespace) :
       /\ ~IsUpper(namespace[i])
       /\ namespace[i] \notin BracketChars \cup {"/", "\\"}
       /\ i < Len(namespace) => ~(namespace[i] = "." /\ namespace[i + 1] = ".")
  /\ namespace # <<>> =>
       /\ namespace[1] \notin {".", "_"}
       /\ namespace[Len(namespace)] \notin {".", "_"}

\* C20: for every strategy (flat, directory, feature, file, custom, unknown)
\* and every path, the namespace generate() returns is not empty, is in lower
\* case, holds no bracket and no path separator, neither starts nor ends with
\* a dot or an underscore, and has no two dots in a row.
C20_NamespaceWellFormed ==
  res.done => (res.value # <<>> /\ WellFormed(res.value))

\* all of that but the first holds
C20_WellFormedOrEmpty == res.done => WellFormed(res.value)

----------------------------------------------------------------------------
(* The namespaces of two files                                              *)

\* the most directories between src and each of the two files
MaxRouteDirs == 2

\* directory names of routes: a literal id beside the placeholder [id], two
\* placeholders with different names, a plain directory and a route group
RouteDirNames ==
  { <<"p", "a", "g", "e", "s">>,
    <<"i", "d">>,
    <<"[", "i", "d", "]">>,
    <<"[", "u", "s", "e", "r", "I", "d", "]">>,
    <<"[", "p", "o", "s", "t", "I", "d", "]">>,
    <<"(", "g", "r", "o", "u", "p", ")">> }

RouteDirs == UNION {[1..n -> RouteDirNames] : n \in 0..MaxRouteDirs}

InitRoutes ==
  /\ NoRun
  /\ arg \in [a : RouteDirs, b : RouteDirs]
  /\ res = [done |-> FALSE, value |-> <<>>]

\* extract(): key.namespace = generate(safePath) for a file of each route
GenerateBoth ==
  /\ ~res.done
  /\ res' = [done |-> TRUE,
             value |-> [a |-> generate("directory", PathOf(arg.a)),
                        b |-> generate("directory", PathOf(arg.b))]]
  /\ UNCHANGED <<runVars, mergeVars, arg>>

NextRoutes == GenerateBoth

SpecRoutes == InitRoutes /\ [][NextRoutes]_vars

\* the two directories are the same route: the same segments, letter case aside
SameRoute ==
  /\ Len(arg.a) = Len(arg.b)
  /\ \A i \in 1..Len(arg.a) : LowerCase(arg.a[i]) = LowerCase(arg.b[i])

\* C21: two raw namespaces with bracketed or parenthesised segments sanitize
\* to the same string if and only if they are the same route: routes that
\* differ in a placeholder name or in the presence of brackets never get the
\* same namespace, so their keys never share a catalog file.
C21_SanitizeSeparatesRoutes ==
  res.done => ((res.value.a = res.value.b) <=> SameRoute)

\* one direction holds: the same route always gets the same namespace
C21_SameRouteSameNamespace ==
  (res.done /\ SameRoute) => res.value.a = res.value.b

----------------------------------------------------------------------------
(* The names in the folder after the migration                              *)

\* the catalog files of a folder
TranslationFiles(folder) == {f \in DOMAIN folder : extname(f) \in TranslationExts}

\* no iteration of the migration loop threw: every file could be loaded
MigratedWithoutError ==
  MigrationDone /\ \A f \in TranslationFiles(preDisk) : Loads(preDisk, f)

LocaleSegment(fileName) == Split(fileName, ".")[1]

\* the old-named files that were moved to their target
MovedFiles == {o \in OldNames(preDisk) : o \notin DOMAIN disk}

LocaleAndExtensionKept ==
  \A o \in MovedFiles :
    /\ newFileName(o) \in DOMAIN disk
    /\ LocaleSegment(newFileName(o)) = LocaleSegment(o)
    /\ extname(newFileName(o)) = extname(o)

\* C22: after migrateInvalidFileNames completed without an error no .js, .ts
\* or .json file of the output folder has one of [ ] ( ) { } < > in its name,
\* in the locale segment or in a namespace segment, and every migrated file
\* kept its locale segment and its extension.
C22_NoDisallowedNames ==
  MigratedWithoutError =>
    /\ \A f \in TranslationFiles(disk) : ~HasInvalidChar(f)
    /\ LocaleAndExtensionKept

\* C22 as the code has it: the disallowed characters are gone from the
\* namespace segments; the locale segment is kept as it is, so a file whose
\* sanitized name is its own name stays, and only such files keep a
\* disallowed character.
C22_NamespaceSegmentsClean ==
  MigratedWithoutError =>
    /\ \A f \in TranslationFiles(disk) :
         HasInvalidChar(f) =>
           /\ newFileName(f) = f
           /\ HasInvalidChar(LocaleSegment(f))
           /\ f \in DOMAIN preDisk
           /\ disk[f] = preDisk[f]
    /\ OldNames(disk) = {}
    /\ LocaleAndExtensionKept

\* a migration moved two old-named files and left the one whose bracket is
\* in the locale segment
C22_Witness ==
  /\ MigratedWithoutError
  /\ MigLocale \in DOMAIN disk
  /\ {MigUser, MigIdJson} \subseteq MovedFiles

----------------------------------------------------------------------------
(* The namespace of a merged key                                            *)

\* the first file of the sorted list that was read and holds the message
FirstContributor(message) ==
  CHOOSE f \in UsableFiles :
    /\ message \in Range(tree[f])
    /\ \A g \in UsableFiles : message \in Range(tree[g]) => ~StrLess(g, f)

\* the namespaces whose group holds the message
GroupsOf(message) ==
  {ns \in Range(namespaces) : message \in KeySet(groupByNamespace(allKeys, ns))}

\* C23: after the extract and merge phase every merged key is in the list
\* once, its namespace is generate(f) for the first file f of the sorted scan
\* order that contributed it, whatever later files contributed it too, and
\* the key is in the group of exactly one namespace.
C23_SingleNamespacePerKey ==
  Scanned =>
    \A i \in 1..Len(allKeys) :
      LET key == allKeys[i]
          first == FirstContributor(key.key)
      IN /\ key.namespace = generate(config.strategy, validatePath(first, Cwd).path)
         /\ \A j \in 1..Len(allKeys) : allKeys[j].key = key.key => j = i
         /\ Cardinality(GroupsOf(key.key)) = 1

\* a key of two files whose namespaces differ has the namespace of the
\* earlier file
C23_Witness ==
  /\ Scanned
  /\ {PHome, PLogin} \subseteq UsableFiles
  /\ generate(config.strategy, validatePath(PHome, Cwd).path)
       # generate(config.strategy, validatePath(PLogin, Cwd).path)
  /\ \E i \in 1..Len(allKeys) :
       /\ allKeys[i].key = KSave
       /\ {validatePath(PHome, Cwd).path, validatePath(PLogin, Cwd).path}
            \subseteq Range(allKeys[i].files)
       /\ allKeys[i].namespace
            = generate(config.strategy, validatePath(PLogin, Cwd).path)

----------------------------------------------------------------------------
(* The two renderings of one key list                                       *)

\* the key lists of one namespace: the merged keys of some of the source files
AgreeKeys ==
  {ExtractAll("flat", t, SortStringSet(DOMAIN t)) : t \in Trees}

InitAgree ==
  /\ NoRun
  /\ arg \in [keys : AgreeKeys, existingTranslations : RenderExisting,
              locale : Range(Locales)]
  /\ res = [done |-> FALSE, value |-> <<>>]

\* generateJS and generateJSON called with the same arguments
RenderBoth ==
  /\ ~res.done
  /\ res' = [done |-> TRUE,
             value |-> [js |-> generateJS(arg.keys, arg.existingTranslations,
                                          CatalogHeader,
                                          arg.locale = SourceLocale),
                        json |-> generateJSON(arg.keys, arg.existingTranslations,
                                              arg.locale = SourceLocale)]]
  /\ UNCHANGED <<runVars, mergeVars, arg>>

NextAgree == RenderBoth

SpecAgree == InitAgree /\ [][NextAgree]_vars

\* the "key": "value" pairs of a text in the order of their lines, unescaped
EmittedPairs(content) ==
  LET kv == SelectSeq(content, LAMBDA line : line[1] = "kv")
  IN [i \in 1..Len(kv) |-> <<UnescapeJS(kv[i][2]), UnescapeJS(kv[i][3])>>]

\* C24: for the same key list, existing translations and source-locale flag
\* generateJSON emits the keys in the sequence in which generateJS emits
\* them, and both emit the same key to value mapping, up to escaping.
C24_JsAndJsonAgree ==
  res.done => EmittedPairs(res.value.js) = EmittedPairs(res.value.json)

\* C24 without the order, for keys that are no inherited property name: the
\* two renderings hold the same pairs
C24_SamePairs ==
  res.done =>
    Range(EmittedPairs(res.value.js)) = Range(EmittedPairs(res.value.json))

----------------------------------------------------------------------------
(* The feature strategy                                                     *)

\* the directories of the path of the call, src first
PathDirs == << <<"s", "r", "c">> >> \o arg.dirs

\* the positions of the feature folders that a directory follows
FeatureDirs ==
  {i \in 1..(Len(PathDirs) - 1) : PathDirs[i] \in FeatureFolders}

\* the positions of all feature folders
FeatureSegments == {i \in 1..Len(PathDirs) : PathDirs[i] \in FeatureFolders}

FeatureCall == res.done /\ arg.strategy = "feature"

\* C25: under the feature strategy the namespace is the name of the directory
\* that immediately follows the first feature folder of the path; the name of
\* the file is never the namespace, and when no feature folder is followed by
\* a directory the result is the result of the directory strategy.
C25_FeatureUsesFolderName ==
  FeatureCall =>
    /\ res.value # sanitizeNamespace(<<"X", ".", "v", "u", "e">>)
    /\ IF FeatureDirs # {}
       THEN LET i == CHOOSE i \in FeatureSegments : \A j \in FeatureSegments : i <= j
            IN /\ i \in FeatureDirs
               /\ res.value = sanitizeNamespace(ReplaceBracketed(PathDirs[i + 1], <<>>))
       ELSE res.value = generate("directory", PathOf(arg.dirs))

\* C25 for the paths whose first feature folder is followed by a directory
C25_FolderAfterFirstFeature ==
  (FeatureCall /\ FeatureDirs # {}) =>
    LET i == CHOOSE i \in FeatureDirs : \A j \in FeatureDirs : i <= j
    IN res.value = sanitizeNamespace(ReplaceBracketed(PathDirs[i + 1], <<>>))

----------------------------------------------------------------------------
(* The messages that become keys                                            *)

\* calls of t with one literal: two valid messages and three whose braces
\* are not balanced
TPlain == <<"t", "(", "\"", "a", "\"", ")">>
TBraces == <<"t", "(", "\"", "{", "n", "}", "\"", ")">>
TOpenBrace == <<"t", "(", "\"", "a", "{", "\"", ")">>
TCloseBrace == <<"t", "(", "\"", "}", "a", "\"", ")">>
TCloseOpen == <<"t", "(", "\"", "}", "{", "\"", ")">>

MessageStatements == {TPlain, TBraces, TOpenBrace, TCloseBrace, TCloseOpen}

InitValidate ==
  /\ NoRun
  /\ arg \in UNION {[1..n -> MessageStatements] : n \in 0..MaxStatements}
  /\ res = [done |-> FALSE, value |-> <<>>]

NextValidate == ExtractFromText

SpecValidate == InitValidate /\ [][NextValidate]_vars

\* the literal of a statement t("...")
LiteralOf(statement) == SubSeq(statement, 4, Len(statement) - 2)

\* the opening braces minus the closing braces among the first n characters
Depth(message, n) ==
  Cardinality({i \in 1..n : message[i] = "{"})
  - Cardinality({i \in 1..n : message[i] = "}"})

Balanced(message) ==
  /\ \A n \in 0..Len(message) : Depth(message, n) >= 0
  /\ Depth(message, Len(message)) = 0

----------------------------------------------------------------------------
(* The file-group comment of a JS catalog                                   *)

\* the most directories between src and the file of a key
MaxCommentDirs == 3

\* directory names, two of them with the character *
CommentDirNames ==
  { <<"p", "a", "g", "e", "s">>, <<"b">>, <<"a", "*">>, <<"*">> }

InitComment ==
  /\ NoRun
  /\ arg \in [dirs : UNION {[1..n -> CommentDirNames] : n \in 0..MaxCommentDirs},
              isSourceLocale : BOOLEAN]
  /\ res = [done |-> FALSE, value |-> <<>>]

\* generateJS for the key of one file; extract() passes the validated path
RenderComment ==
  /\ ~res.done
  /\ LET safePath == validatePath(PathOf(arg.dirs), Cwd)
     IN /\ safePath.ok
        /\ res' = [done |-> TRUE,
                   value |-> generateJS(<<KeyRecord(KSave, safePath.path)>>, <<>>,
                                        CatalogHeader, arg.isSourceLocale)]
  /\ UNCHANGED <<runVars, mergeVars, arg>>

NextComment == RenderComment

SpecComment == InitComment /\ [][NextComment]_vars

\* the text holds the comment terminator
HasCommentEnd(text) ==
  \E i \in 1..(Len(text) - 1) : text[i] = "*" /\ text[i + 1] = "/"

\* C27: the file-group label emitted inside the block comment of a JS
\* catalog holds no comment terminator, whatever the path of the file, so
\* the comment ends at the terminator the generator emits.
C27_CommentNotTerminatedByPath ==
  res.done =>
    \A i \in 1..Len(res.value) :
      res.value[i][1] = "comment" => ~HasCommentEnd(res.value[i][2])

\* C27 for the paths without the character *
C27_PlainPathsStayInComment ==
  (res.done /\ \A i \in DOMAIN arg.dirs : "*" \notin Range(arg.dirs[i])) =>
    \A i \in 1..Len(res.value) :
      res.value[i][1] = "comment" => ~HasCommentEnd(res.value[i][2])

----------------------------------------------------------------------------
(* The paths validatePath lets through                                      *)

\* the most segments below the root of a checked path
MaxPathSegments == 3

\* where a checked path starts: relative to the project directory, the
\* project directory itself, a sibling whose name starts with its name, and
\* another directory
PathRoots == { <<>>, Cwd, Cwd \o <<"q">>, <<"/", "q">> }

PathSegments == { <<"s", "r", "c">>, <<"a">>, <<"X", ".", "v", "u", "e">> }

CheckedPaths ==
  {Join((IF root = <<>> THEN <<>> ELSE <<root>>) \o segments, <<"/">>) :
     root \in PathRoots,
     segments \in UNION {[1..n -> PathSegments] : n \in 1..MaxPathSegments}}
  \cup (PathRoots \ {<<>>})

InitContain ==
  /\ NoRun
  /\ arg \in CheckedPaths
  /\ res = [done |-> FALSE, value |-> <<>>]

\* validatePath(arg) with the default base directory
ValidatePath ==
  /\ ~res.done
  /\ res' = [done |-> TRUE, value |-> validatePath(arg, Cwd)]
  /\ UNCHANGED <<runVars, mergeVars, arg>>

NextContain == ValidatePath

SpecContain == InitContain /\ [][NextContain]_vars

\* path is base or below it, segment by segment
IsInside(path, base) ==
  LET p == Split(path, "/")
      b == Split(base, "/")
  IN Len(p) >= Len(b) /\ SubSeq(p, 1, Len(b)) = b

\* C28: validatePath returns the resolved path only if it is the base
\* directory or a descendant of it, compared segment by segment, and throws
\* otherwise; a path in a sibling directory whose name starts with the name
\* of the base directory is rejected.
C28_PathContainment ==
  res.done =>
    /\ res.value.ok <=> IsInside(PathResolve(Cwd, arg), Cwd)
    /\ res.value.ok => res.value.path = PathResolve(Cwd, arg)

\* C28 as the code has it: the paths that are let through are those whose
\* text starts with the text of the base directory
C28_TextPrefixOnly ==
  res.done =>
    /\ res.value.ok <=> StartsWith(PathResolve(Cwd, arg), Cwd)
    /\ IsInside(PathResolve(Cwd, arg), Cwd) => res.value.ok
    /\ res.value.ok => res.value.path = PathResolve(Cwd, arg)

----------------------------------------------------------------------------
(* The .json files of a run                                                 *)

\* the .json paths the run wrote in the given stages
JsonWritten(stages) ==
  {writes[i][2] : i \in {j \in DOMAIN writes :
                           /\ writes[j][1] \in stages
                           /\ extname(writes[j][2]) = JsonExt}}

\* the file holds a JSON object and loadTranslationFile reads it
LoadsAsJson(folder, name) ==
  /\ name \in DOMAIN folder
  /\ IsJsonText(folder[name])
  /\ loadTranslationFile(name, folder[name]).ok

JsonRunDone == config.format = FormatJson /\ pc = "done"

\* C29: with the format json every .json file the run wrote, the catalogs
\* and the aggregator of each locale, holds a JSON object of keys and
\* strings that loadTranslationFile reads back without an error.
C29_JsonOutputsAreJson ==
  JsonRunDone => \A name \in JsonWritten({"catalog", "index"}) : LoadsAsJson(disk, name)

\* C29 for the catalogs alone, where no aggregator has the path of a catalog
C29_JsonCatalogsAreJson ==
  JsonRunDone =>
    \A name \in JsonWritten({"catalog"}) \ JsonWritten({"index"}) :
      LoadsAsJson(disk, name)

----------------------------------------------------------------------------
(* Several old-named files with one target                                  *)

\* the old-named files of the folder whose sanitized name is target
OldNamesOf(folder, target) == {o \in OldNames(folder) : newFileName(o) = target}

\* the files a migration to target reads: the old-named ones and the target
Involved(folder, target) ==
  OldNamesOf(folder, target) \cup ({target} \cap DOMAIN folder)

SharedTargets ==
  {t \in {newFileName(o) : o \in OldNames(preDisk)} :
     /\ Cardinality(OldNamesOf(preDisk, t)) >= 2
     /\ \A f \in Involved(preDisk, t) : Loads(preDisk, f)}

\* C30: when several old-named files sanitize to one target name and all the
\* files involved load, after the migration the target holds every key of
\* each of them and of the target that was there before, and none of the
\* old-named files remains, in whatever order the directory was listed.
C30_MigrationKeepsKeys ==
  MigrationDone =>
    \A t \in SharedTargets :
      /\ Loads(disk, t)
      /\ MapKeys(MapOf(disk, t))
           = UNION {MapKeys(MapOf(preDisk, f)) : f \in Involved(preDisk, t)}
      /\ OldNamesOf(preDisk, t) \cap DOMAIN disk = {}

\* two old-named files met no target: one was renamed, the other merged into
\* it, and the target holds the keys of both
C30_Witness ==
  /\ MigrationDone
  /\ {MigUser, MigPost} \subseteq DOMAIN preDisk
  /\ MigParam \notin DOMAIN preDisk
  /\ MigParam \in SharedTargets
  /\ MapKeys(MapOf(disk, MigParam)) = {KSave, KHi}
  /\ {MigUser, MigPost} \cap DOMAIN disk = {}

====
